---------------------------- MODULE Spec2Model ----------------------------
(***************************************************************************)
(* A model of cuid.h: the base-36 codec, the counter, the multiply-with-   *)
(* carry generator and the identifier assembler (pure and quick mode).     *)
(*                                                                         *)
(* Numbers keep the width they have in the C source.  A uint32_t is a pair *)
(* <<hi, lo>> of 16-bit limbs and a uint64_t a tuple <<l3, l2, l1, l0>>,   *)
(* most significant limb first, so that every intermediate product stays   *)
(* inside the checker's integers.  A char array is a function from its     *)
(* indices (from 0) to one-character strings; NUL is the terminator.       *)
(***************************************************************************)
EXTENDS Integers, Sequences, FiniteSets, TLC

Limb == 2^16

NUL == "NUL"

(***************************************************************************)
(* Fixed-width unsigned arithmetic                                         *)
(***************************************************************************)
U32FromNat(n) == <<n \div Limb, n % Limb>>

U64FromNat(n) == <<0, 0, n \div Limb, n % Limb>>

\* (uint64_t)x for a uint32_t x: zero extension
U64FromU32(x) == <<0, 0, x[1], x[2]>>

\* (uint32_t)t for a uint64_t t: the low 32 bits
U32FromU64(t) == <<t[3], t[4]>>

U32Zero == <<0, 0>>

U32Max == <<Limb - 1, Limb - 1>>

U64Max == <<Limb - 1, Limb - 1, Limb - 1, Limb - 1>>

U64IsZero(n) == n = <<0, 0, 0, 0>>

\* x + 1 in uint32_t arithmetic (wraps at 2^32)
U32Inc(x) ==
  IF x[2] + 1 < Limb THEN <<x[1], x[2] + 1>>
  ELSE IF x[1] + 1 < Limb THEN <<x[1] + 1, 0>>
  ELSE <<0, 0>>

U32Less(a, b) == a[1] < b[1] \/ (a[1] = b[1] /\ a[2] < b[2])

U64Less(a, b) ==
  \E i \in 1..4 : a[i] < b[i] /\ \A j \in 1..(i - 1) : a[j] = b[j]

U64Leq(a, b) == a = b \/ U64Less(a, b)

\* n / d and n % d for a uint64_t n and a small divisor d (long division)
U64DivMod(n, d) ==
  LET c1 == n[1]
      c2 == (c1 % d) * Limb + n[2]
      c3 == (c2 % d) * Limb + n[3]
      c4 == (c3 % d) * Limb + n[4]
  IN  [quot |-> <<c1 \div d, c2 \div d, c3 \div d, c4 \div d>>, rem |-> c4 % d]

\* n * k + a for small k and a; overflow says the result passed 2^64 - 1
U64MulAdd(n, k, a) ==
  LET p4 == n[4] * k + a
      p3 == n[3] * k + (p4 \div Limb)
      p2 == n[2] * k + (p3 \div Limb)
      p1 == n[1] * k + (p2 \div Limb)
  IN  [value |-> <<p1 % Limb, p2 % Limb, p3 % Limb, p4 % Limb>>,
       overflow |-> p1 \div Limb > 0]

\* n - 1 for n > 0
U64Dec(n) ==
  IF n[4] > 0 THEN <<n[1], n[2], n[3], n[4] - 1>>
  ELSE IF n[3] > 0 THEN <<n[1], n[2], n[3] - 1, Limb - 1>>
  ELSE IF n[2] > 0 THEN <<n[1], n[2] - 1, Limb - 1, Limb - 1>>
  ELSE <<n[1] - 1, Limb - 1, Limb - 1, Limb - 1>>

\* n + 1 in uint64_t arithmetic (wraps at 2^64)
U64Inc(n) ==
  IF n[4] + 1 < Limb THEN <<n[1], n[2], n[3], n[4] + 1>>
  ELSE IF n[3] + 1 < Limb THEN <<n[1], n[2], n[3] + 1, 0>>
  ELSE IF n[2] + 1 < Limb THEN <<n[1], n[2] + 1, 0, 0>>
  ELSE IF n[1] + 1 < Limb THEN <<n[1] + 1, 0, 0, 0>>
  ELSE <<0, 0, 0, 0>>

\* a + b in uint32_t arithmetic (wraps at 2^32)
U32Add(a, b) ==
  LET lo == a[2] + b[2]
      hi == a[1] + b[1] + (lo \div Limb)
  IN  <<hi % Limb, lo % Limb>>

\* a - b in uint32_t arithmetic (wraps at 2^32)
U32Sub(a, b) ==
  LET lo == a[2] - b[2] + Limb
      hi == a[1] - b[1] + Limb - (IF lo < Limb THEN 1 ELSE 0)
  IN  <<hi % Limb, lo % Limb>>

\* a + b in uint64_t arithmetic (wraps at 2^64)
U64Add(a, b) ==
  LET s4 == a[4] + b[4]
      s3 == a[3] + b[3] + (s4 \div Limb)
      s2 == a[2] + b[2] + (s3 \div Limb)
      s1 == a[1] + b[1] + (s2 \div Limb)
  IN  <<s1 % Limb, s2 % Limb, s3 % Limb, s4 % Limb>>

\* 36^k for k in 0..12
RECURSIVE Pow36(_)
Pow36(k) == IF k = 0 THEN U64FromNat(1) ELSE U64MulAdd(Pow36(k - 1), 36, 0).value

(***************************************************************************)
(* Char arrays.  A memory is the bytes of an array together with the set   *)
(* of indices written so far; a callee gets the memory and the index p of  *)
(* the element its pointer argument points at.                             *)
(***************************************************************************)
NewArray(size, fill) == [i \in 0..(size - 1) |-> fill]

Memory(bytes) == [bytes |-> bytes, written |-> {}]

Store(m, i, ch) ==
  [bytes |-> IF i \in DOMAIN m.bytes THEN [m.bytes EXCEPT ![i] = ch] ELSE m.bytes,
   written |-> m.written \cup {i}]

\* The C string starting at index p: the characters before the first NUL
RECURSIVE CString(_, _)
CString(bytes, p) ==
  IF p \notin DOMAIN bytes \/ bytes[p] = NUL THEN <<>>
  ELSE <<bytes[p]>> \o CString(bytes, p + 1)

\* The n characters at indices p .. p+n-1
Chars(bytes, p, n) == [i \in 1..n |-> bytes[p + i - 1]]

(***************************************************************************)
(* Base-36 codec                                                           *)
(***************************************************************************)
CUID_BASE36_RESULT_SIZE == 16

cuid_radix36_table ==
  <<"0", "1", "2", "3", "4", "5", "6", "7", "8", "9", "a", "b",
    "c", "d", "e", "f", "g", "h", "i", "j", "k", "l", "m", "n",
    "o", "p", "q", "r", "s", "t", "u", "v", "w", "x", "y", "z">>

base == Len(cuid_radix36_table)

\* Mutant: the loop stops at 12 digits
cuid_base36_again_cut_early(cuid_number, cuid_length) ==
  ~U64IsZero(cuid_number) /\ cuid_length < 12

\* The test of the do-while loop of cuid_base36
cuid_base36_again(cuid_number, cuid_length) ==
  ~U64IsZero(cuid_number) /\ cuid_length < CUID_BASE36_RESULT_SIZE - 1

\* The do-while loop: digits least significant first, at most 15 of them
RECURSIVE cuid_base36_digits(_, _, _)
cuid_base36_digits(cuid_number, cuid_inverted_result, cuid_length) ==
  LET dm == U64DivMod(cuid_number, base)
      inverted == [cuid_inverted_result EXCEPT
                     ![cuid_length] = cuid_radix36_table[dm.rem + 1]]
      length == cuid_length + 1
  IN  IF cuid_base36_again(dm.quot, length)
      THEN cuid_base36_digits(dm.quot, inverted, length)
      ELSE [inverted |-> inverted, length |-> length]

\* The for loop that writes the digits most significant first
RECURSIVE cuid_base36_invert(_, _, _, _, _)
cuid_base36_invert(m, p, cuid_inverted_result, cuid_length, i) ==
  IF i <= cuid_length - 1
  THEN cuid_base36_invert(
         Store(m, p + i, cuid_inverted_result[cuid_length - 1 - i]),
         p, cuid_inverted_result, cuid_length, i + 1)
  ELSE m

\* Mutant: the digits are not inverted (least significant digit first)
cuid_base36_lsb_first(cuid_number, m, p) ==
  LET d == cuid_base36_digits(cuid_number,
                              NewArray(CUID_BASE36_RESULT_SIZE, NUL), 0)
      copy[i \in 0..d.length] ==
        IF i = 0 THEN m ELSE Store(copy[i - 1], p + i - 1, d.inverted[i - 1])
  IN  [mem |-> Store(copy[d.length], p + d.length, NUL), length |-> d.length]

cuid_base36(cuid_number, m, p) ==
  LET d == cuid_base36_digits(cuid_number,
                              NewArray(CUID_BASE36_RESULT_SIZE, NUL), 0)
      inverted == cuid_base36_invert(m, p, d.inverted, d.length, 0)
  IN  [mem |-> Store(inverted, p + d.length, NUL), length |-> d.length]

\* base36_str_len < pad_length: shift right and fill with pad_char
RECURSIVE cuid_base36_pad_shift(_, _, _, _, _, _)
cuid_base36_pad_shift(m, p, pad_length, pad_char, base36_str_len, i) ==
  IF i <= pad_length
  THEN cuid_base36_pad_shift(
         Store(m, p + pad_length - i,
               IF i > base36_str_len THEN pad_char
               ELSE m.bytes[p + base36_str_len - i]),
         p, pad_length, pad_char, base36_str_len, i + 1)
  ELSE m

\* Mutant: clips at the other end, keeping the most significant digits
cuid_base36_pad_clip_keeps_head(m, p, pad_length, diff, i) ==
  Store(m, p + pad_length, NUL)

\* Mutant: the loop stops one short (i < pad_length), leaving the terminator
RECURSIVE cuid_base36_pad_clip_stops_short(_, _, _, _, _)
cuid_base36_pad_clip_stops_short(m, p, pad_length, diff, i) ==
  IF i < pad_length
  THEN cuid_base36_pad_clip_stops_short(Store(m, p + i, m.bytes[p + i + diff]),
                                        p, pad_length, diff, i + 1)
  ELSE m

\* base36_str_len > pad_length: move the characters left by diff
RECURSIVE cuid_base36_pad_clip(_, _, _, _, _)
cuid_base36_pad_clip(m, p, pad_length, diff, i) ==
  IF i <= pad_length
  THEN cuid_base36_pad_clip(Store(m, p + i, m.bytes[p + i + diff]),
                            p, pad_length, diff, i + 1)
  ELSE m

\* Mutant: a width of one block is already refused
cuid_base36_pad_exits_early(pad_length) == pad_length >= 4

\* The test that ends the process with perror and CUID_EXIT(EXIT_FAILURE)
cuid_base36_pad_exits(pad_length) == pad_length >= CUID_BASE36_RESULT_SIZE

\* exited: perror and CUID_EXIT(EXIT_FAILURE) ended the process
cuid_base36_pad(cuid_number, m, p, pad_length, pad_char) ==
  IF cuid_base36_pad_exits(pad_length)
  THEN [mem |-> m, length |-> 0, exited |-> TRUE]
  ELSE
    LET r == cuid_base36(cuid_number, m, p)
        base36_str_len == r.length
    IN  [mem |->
           IF base36_str_len < pad_length
           THEN cuid_base36_pad_shift(r.mem, p, pad_length, pad_char,
                                      base36_str_len, 0)
           ELSE IF base36_str_len > pad_length
           THEN cuid_base36_pad_clip(r.mem, p, pad_length,
                                     base36_str_len - pad_length, 0)
           ELSE r.mem,
         length |-> pad_length,
         exited |-> FALSE]

(***************************************************************************)
(* Counter (cuid_counter_t; unsigned is 32 bits wide)                      *)
(***************************************************************************)
cuid_create_counter == [value |-> U32Zero]

cuid_init_counter(c) == [c EXCEPT !.value = U32Zero]

cuid_read_counter(c) == c.value

\* Mutant: the increment is lost
cuid_inc_counter_lost(c) == c

cuid_inc_counter(c) == [c EXCEPT !.value = U32Inc(c.value)]

(***************************************************************************)
(* Multiply-with-carry generator (mwc_random_t)                            *)
(*                                                                         *)
(* MWC_SYSTEM_RAND32 is the external seed source.  mwc_initial_c gets the  *)
(* values the source returns to its loop, in order, and mwc_create the     *)
(* stream that fills the table: SeedWord(stream, i) is the i-th draw.      *)
(***************************************************************************)
MWC_CYCLE == 4096

MWC_C_MAX == 809430660

SeedWord(stream, i) ==
  IF stream = "mixed"
  THEN <<(i * 7919 + 40503) % Limb, (i * 13849 + 25173) % Limb>>
  ELSE IF stream = "repeating"
  THEN IF i = MWC_CYCLE - 1 THEN <<Limb - 1, Limb - 7>> ELSE U32Zero
  ELSE IF i % 2 = 0 THEN U32Max ELSE U32Zero

SeedStreams == {"mixed", "ones"}

\* An array of MWC_CYCLE words is kept as the stream mwc_create filled it
\* from and the words stored in it since that differ from the stream's.
WordArray(stream) == [fill |-> stream, stored |-> [j \in {} |-> U32Zero]]

WordAt(a, i) == IF i \in DOMAIN a.stored THEN a.stored[i] ELSE SeedWord(a.fill, i)

WordStore(a, i, w) ==
  LET at == IF w = SeedWord(a.fill, i)
            THEN DOMAIN a.stored \ {i}
            ELSE DOMAIN a.stored \cup {i}
  IN  [a EXCEPT !.stored = [j \in at |-> IF j = i THEN w ELSE a.stored[j]]]

\* Mutant: the first draw is taken, whatever it is
mwc_initial_c_first_draw(draws) == Head(draws)

\* Mutant: the loop goes on whatever the draw is
mwc_initial_c_again_always(mwc_initial_carry) == TRUE

\* The test of the do-while loop of mwc_initial_c
mwc_initial_c_again(mwc_initial_carry) ==
  ~U32Less(mwc_initial_carry, U32FromNat(MWC_C_MAX))

\* The do-while loop: the first draw below MWC_C_MAX
RECURSIVE mwc_initial_c(_)
mwc_initial_c(draws) ==
  LET mwc_initial_carry == Head(draws)
  IN  IF mwc_initial_c_again(mwc_initial_carry)
      THEN mwc_initial_c(Tail(draws))
      ELSE mwc_initial_carry

mwc_create(draws, stream) ==
  LET mwc_c == mwc_initial_c(draws)
  IN  [mwc_q |-> WordArray(stream),
       mwc_carry |-> mwc_c,
       mwc_current_cycle |-> MWC_CYCLE - 1,
       mwc_initial_carry |-> mwc_c,
       mwc_initial_q |-> WordArray(stream)]

\* Mutant: the copy runs the other way and saves the live table
mwc_init_saves_live(r) ==
  [r EXCEPT !.mwc_carry = r.mwc_initial_carry,
            !.mwc_current_cycle = MWC_CYCLE - 1,
            !.mwc_initial_q = r.mwc_q]

\* Mutant: the reset forgets the carry
mwc_init_keeps_carry(r) ==
  [r EXCEPT !.mwc_current_cycle = MWC_CYCLE - 1,
            !.mwc_q = r.mwc_initial_q]

mwc_init(r) ==
  [r EXCEPT !.mwc_carry = r.mwc_initial_carry,
            !.mwc_current_cycle = MWC_CYCLE - 1,
            !.mwc_q = r.mwc_initial_q]

mwc_read_random(state) == WordAt(state.mwc_q, state.mwc_current_cycle)

\* Mutant: the cursor is left where it was
mwc_next_random_keeps_cursor(state) ==
  LET a == 18782
      m == <<Limb - 1, Limb - 2>>
      cycle == (state.mwc_current_cycle + 1) % MWC_CYCLE
      t == U64Add(U64MulAdd(U64FromU32(WordAt(state.mwc_q, cycle)), a, 0).value,
                  U64FromU32(state.mwc_carry))
      carry == <<t[1], t[2]>>
      x == U32Add(U32FromU64(t), carry)
      fix == U32Less(x, carry)
      x2 == IF fix THEN U32Inc(x) ELSE x
      carry2 == IF fix THEN U32Inc(carry) ELSE carry
  IN  [state EXCEPT !.mwc_carry = carry2,
                    !.mwc_q = WordStore(@, cycle, U32Sub(m, x2))]

\* Mutant: the cursor is not masked with MWC_CYCLE - 1
mwc_next_random_unmasked(state) ==
  LET a == 18782
      m == <<Limb - 1, Limb - 2>>
      cycle == state.mwc_current_cycle + 1
      t == U64Add(U64MulAdd(U64FromU32(WordAt(state.mwc_q, cycle)), a, 0).value,
                  U64FromU32(state.mwc_carry))
      carry == <<t[1], t[2]>>
      x == U32Add(U32FromU64(t), carry)
      fix == U32Less(x, carry)
      x2 == IF fix THEN U32Inc(x) ELSE x
      carry2 == IF fix THEN U32Inc(carry) ELSE carry
  IN  [state EXCEPT !.mwc_current_cycle = cycle,
                    !.mwc_carry = carry2,
                    !.mwc_q = WordStore(@, cycle, U32Sub(m, x2))]

\* Mutant: the sum x = low32(t) + carry is not corrected when it wraps
mwc_next_random_uncorrected(state) ==
  LET a == 18782
      m == <<Limb - 1, Limb - 2>>
      cycle == (state.mwc_current_cycle + 1) % MWC_CYCLE
      t == U64Add(U64MulAdd(U64FromU32(WordAt(state.mwc_q, cycle)), a, 0).value,
                  U64FromU32(state.mwc_carry))
      carry == <<t[1], t[2]>>
      x == U32Add(U32FromU64(t), carry)
  IN  [state EXCEPT !.mwc_current_cycle = cycle,
                    !.mwc_carry = carry,
                    !.mwc_q = WordStore(@, cycle, U32Sub(m, x))]

\* x & (MWC_CYCLE - 1), MWC_CYCLE being a power of two
mwc_next_random(state) ==
  LET a == 18782
      m == <<Limb - 1, Limb - 2>>
      cycle == (state.mwc_current_cycle + 1) % MWC_CYCLE
      t == U64Add(U64MulAdd(U64FromU32(WordAt(state.mwc_q, cycle)), a, 0).value,
                  U64FromU32(state.mwc_carry))
      carry == <<t[1], t[2]>>
      x == U32Add(U32FromU64(t), carry)
      fix == U32Less(x, carry)
      x2 == IF fix THEN U32Inc(x) ELSE x
      carry2 == IF fix THEN U32Inc(carry) ELSE carry
  IN  [state EXCEPT !.mwc_current_cycle = cycle,
                    !.mwc_carry = carry2,
                    !.mwc_q = WordStore(@, cycle, U32Sub(m, x2))]

(***************************************************************************)
(* Identifier context of the pure API (cuid_t).  unsigned long is 64 bits  *)
(* wide.                                                                   *)
(***************************************************************************)
CUID_SIZE == 24

CUID_FINGERPRINT_SIZE == 5

CUID_TIMESTAMP_LENGTH == 6

CUID_BLOCK_LENGTH == 4

\* for (i = 0; i < n; ++i) to[at + i] = from[i];
CopyChars(to, at, from, n) ==
  [j \in DOMAIN to |-> IF j >= at /\ j < at + n THEN from[j - at] ELSE to[j]]

\* cuid_base36_pad called on one of the char arrays of a cuid_t
PadField(number, field, pad_length, pad_char) ==
  cuid_base36_pad(number, Memory(field), 0, pad_length, pad_char).mem.bytes

\* Mutant: the fingerprint of the argument is not copied
cuid_create_without_fingerprint(fingerprint, seed) ==
  [cuid_fingerprint |-> NewArray(CUID_BASE36_RESULT_SIZE, NUL),
   cuid_counter |-> cuid_create_counter,
   cuid_counter_str |-> NewArray(CUID_BASE36_RESULT_SIZE, NUL),
   cuid_rnd1 |-> mwc_create(seed.draws1, seed.stream1),
   cuid_rnd2 |-> mwc_create(seed.draws2, seed.stream2),
   cuid_rnd1_str |-> NewArray(CUID_BASE36_RESULT_SIZE, NUL),
   cuid_rnd2_str |-> NewArray(CUID_BASE36_RESULT_SIZE, NUL),
   cuid_value |-> NewArray(CUID_SIZE, NUL),
   cuid_timestamp |-> NewArray(CUID_BASE36_RESULT_SIZE, NUL)]

\* seed: what the seed source returns to the two mwc_create calls
cuid_create(fingerprint, seed) ==
  [cuid_fingerprint |->
     CopyChars(NewArray(CUID_BASE36_RESULT_SIZE, NUL), 0, fingerprint,
               CUID_FINGERPRINT_SIZE),
   cuid_counter |-> cuid_create_counter,
   cuid_counter_str |-> NewArray(CUID_BASE36_RESULT_SIZE, NUL),
   cuid_rnd1 |-> mwc_create(seed.draws1, seed.stream1),
   cuid_rnd2 |-> mwc_create(seed.draws2, seed.stream2),
   cuid_rnd1_str |-> NewArray(CUID_BASE36_RESULT_SIZE, NUL),
   cuid_rnd2_str |-> NewArray(CUID_BASE36_RESULT_SIZE, NUL),
   cuid_value |-> NewArray(CUID_SIZE, NUL),
   cuid_timestamp |-> NewArray(CUID_BASE36_RESULT_SIZE, NUL)]

\* A struct argument is passed by value: it is evaluated once, then F runs
ByValue(F(_), arg) == CHOOSE result \in {F(x) : x \in {arg}} : TRUE

\* The loops that copy the blocks into cuid_value
cuid_value_blocks(id, counter_str, rnd1_str, rnd2_str) ==
  [j \in 0..(CUID_SIZE - 1) |->
     IF j = 0 THEN "c"
     ELSE IF j < CUID_TIMESTAMP_LENGTH + 1 THEN id.cuid_timestamp[j - 1]
     ELSE IF j < CUID_BLOCK_LENGTH + CUID_TIMESTAMP_LENGTH + 1
       THEN counter_str[j - (CUID_TIMESTAMP_LENGTH + 1)]
     ELSE IF j < 2 * CUID_BLOCK_LENGTH + CUID_TIMESTAMP_LENGTH + 1
       THEN id.cuid_fingerprint[j - (CUID_BLOCK_LENGTH + CUID_TIMESTAMP_LENGTH + 1)]
     ELSE IF j < 3 * CUID_BLOCK_LENGTH + CUID_TIMESTAMP_LENGTH + 1
       THEN rnd1_str[j - (2 * CUID_BLOCK_LENGTH + CUID_TIMESTAMP_LENGTH + 1)]
     ELSE IF j < 4 * CUID_BLOCK_LENGTH + CUID_TIMESTAMP_LENGTH + 1
       THEN rnd2_str[j - (3 * CUID_BLOCK_LENGTH + CUID_TIMESTAMP_LENGTH + 1)]
     ELSE id.cuid_value[j]]

\* Mutant: the second random block is copied from the first one's array
cuid_gen_value_string_repeats_rnd1(id) ==
  CHOOSE result \in
    {[id EXCEPT !.cuid_counter_str = counter_str,
                !.cuid_rnd1_str = rnd1_str,
                !.cuid_rnd2_str = rnd2_str,
                !.cuid_value = cuid_value_blocks(id, counter_str, rnd1_str, rnd1_str)] :
       counter_str \in {PadField(U64FromU32(cuid_read_counter(id.cuid_counter)),
                                 id.cuid_counter_str, CUID_BLOCK_LENGTH, "0")},
       rnd1_str \in {PadField(U64FromU32(mwc_read_random(id.cuid_rnd1)),
                              id.cuid_rnd1_str, CUID_BLOCK_LENGTH, "0")},
       rnd2_str \in {PadField(U64FromU32(mwc_read_random(id.cuid_rnd2)),
                              id.cuid_rnd2_str, CUID_BLOCK_LENGTH, "0")}} : TRUE

cuid_gen_value_string(id) ==
  CHOOSE result \in
    {[id EXCEPT !.cuid_counter_str = counter_str,
                !.cuid_rnd1_str = rnd1_str,
                !.cuid_rnd2_str = rnd2_str,
                !.cuid_value = cuid_value_blocks(id, counter_str, rnd1_str, rnd2_str)] :
       counter_str \in {PadField(U64FromU32(cuid_read_counter(id.cuid_counter)),
                                 id.cuid_counter_str, CUID_BLOCK_LENGTH, "0")},
       rnd1_str \in {PadField(U64FromU32(mwc_read_random(id.cuid_rnd1)),
                              id.cuid_rnd1_str, CUID_BLOCK_LENGTH, "0")},
       rnd2_str \in {PadField(U64FromU32(mwc_read_random(id.cuid_rnd2)),
                              id.cuid_rnd2_str, CUID_BLOCK_LENGTH, "0")}} : TRUE

\* Mutant: the counter keeps counting across the initialisation
cuid_init_keeps_counter(id, timestamp) ==
  ByValue(cuid_gen_value_string,
    [id EXCEPT !.cuid_rnd1 = mwc_init(id.cuid_rnd1),
               !.cuid_rnd2 = mwc_init(id.cuid_rnd2),
               !.cuid_timestamp = PadField(timestamp, id.cuid_timestamp,
                                           CUID_TIMESTAMP_LENGTH, "0"),
               !.cuid_value = NewArray(CUID_SIZE, NUL)])

cuid_init(id, timestamp) ==
  ByValue(cuid_gen_value_string,
    [id EXCEPT !.cuid_counter = cuid_init_counter(id.cuid_counter),
               !.cuid_rnd1 = mwc_init(id.cuid_rnd1),
               !.cuid_rnd2 = mwc_init(id.cuid_rnd2),
               !.cuid_timestamp = PadField(timestamp, id.cuid_timestamp,
                                           CUID_TIMESTAMP_LENGTH, "0"),
               !.cuid_value = NewArray(CUID_SIZE, NUL)])

\* What cuid_read copies into the destination array
\* cuid_read leaving the last byte of the destination as the caller had it
cuid_read_stops_short(id) ==
  [i \in 0..(CUID_SIZE - 1) |->
     IF i < CUID_SIZE - 1 THEN id.cuid_value[i] ELSE "?"]

cuid_read(id) == [i \in 0..(CUID_SIZE - 1) |-> id.cuid_value[i]]

\* Mutant: the timestamp of the previous identifier is kept
cuid_next_keeps_timestamp(id, timestamp) ==
  ByValue(cuid_gen_value_string,
    [id EXCEPT !.cuid_counter = cuid_inc_counter(id.cuid_counter),
               !.cuid_rnd1 = mwc_next_random(id.cuid_rnd1),
               !.cuid_rnd2 = mwc_next_random(id.cuid_rnd2)])

\* Mutant: the counter is not incremented
cuid_next_keeps_counter(id, timestamp) ==
  ByValue(cuid_gen_value_string,
    [id EXCEPT !.cuid_rnd1 = mwc_next_random(id.cuid_rnd1),
               !.cuid_rnd2 = mwc_next_random(id.cuid_rnd2),
               !.cuid_timestamp = PadField(timestamp, id.cuid_timestamp,
                                           CUID_TIMESTAMP_LENGTH, "0")])

cuid_next(id, timestamp) ==
  ByValue(cuid_gen_value_string,
    [id EXCEPT !.cuid_counter = cuid_inc_counter(id.cuid_counter),
               !.cuid_rnd1 = mwc_next_random(id.cuid_rnd1),
               !.cuid_rnd2 = mwc_next_random(id.cuid_rnd2),
               !.cuid_timestamp = PadField(timestamp, id.cuid_timestamp,
                                           CUID_TIMESTAMP_LENGTH, "0")])

\* Whether a cuid_init or cuid_next call ends the process: one of the
\* cuid_base36_pad calls made for the timestamp and the three blocks
\* refuses its width
cuid_render_exits ==
  \/ cuid_base36_pad_exits(CUID_TIMESTAMP_LENGTH)
  \/ cuid_base36_pad_exits(CUID_BLOCK_LENGTH)

(***************************************************************************)
(* Quick mode: cuid(result) and the default fingerprint provider.  The     *)
(* blocks are encoded in place, at &result[length].                        *)
(***************************************************************************)
CUID_HOSTNAME_LENGTH == 256

\* The statements of a function body in order: F runs on the value of arg
Then(arg, F(_)) == ByValue(F, arg)

\* hostname_number += hostname.values[i] for the n words from index from:
\* the sum of the loop in uint64_t, its two halves added to keep the
\* evaluation shallow
RECURSIVE cuid_hostname_number(_, _, _)
cuid_hostname_number(values, from, n) ==
  IF n = 1 THEN U64FromU32(values[from])
  ELSE Then(cuid_hostname_number(values, from, n \div 2), LAMBDA head :
       Then(cuid_hostname_number(values, from + n \div 2, n - n \div 2), LAMBDA tail :
         U64Add(head, tail)))

\* Mutant: the sum of the host name starts at the pid
cuid_get_fingerprint_sum_from_pid(m, p, host, pid) ==
  IF host.error_code # 0
  THEN [mem |-> m, length |-> 0, exited |-> TRUE]
  ELSE
    Then(cuid_hostname_number(host.values, 0, CUID_HOSTNAME_LENGTH \div 4),
         LAMBDA hostname_number :
    Then(cuid_base36_pad(U64Add(hostname_number, pid), m, p, 2, "0"), LAMBDA name :
      IF name.exited THEN name
      ELSE
        Then(cuid_base36_pad(pid, name.mem, p + 2, 2, "0"), LAMBDA process :
          [mem |-> process.mem, length |-> name.length + process.length,
           exited |-> process.exited])))

\* Mutant: the error code of gethostname is not looked at
cuid_get_fingerprint_ignores_error(m, p, host, pid) ==
  Then(cuid_hostname_number(host.values, 0, CUID_HOSTNAME_LENGTH \div 4),
       LAMBDA hostname_number :
  Then(cuid_base36_pad(hostname_number, m, p, 2, "0"), LAMBDA name :
    IF name.exited THEN name
    ELSE
      Then(cuid_base36_pad(pid, name.mem, p + 2, 2, "0"), LAMBDA process :
        [mem |-> process.mem, length |-> name.length + process.length,
         exited |-> process.exited])))

\* host: what gethostname returns and leaves in the union; pid: getpid()
cuid_get_fingerprint(m, p, host, pid) ==
  IF host.error_code # 0
  THEN [mem |-> m, length |-> 0, exited |-> TRUE]
  ELSE
    Then(cuid_hostname_number(host.values, 0, CUID_HOSTNAME_LENGTH \div 4),
         LAMBDA hostname_number :
    Then(cuid_base36_pad(hostname_number, m, p, 2, "0"), LAMBDA name :
      IF name.exited THEN name
      ELSE
        Then(cuid_base36_pad(pid, name.mem, p + 2, 2, "0"), LAMBDA process :
          [mem |-> process.mem, length |-> name.length + process.length,
           exited |-> process.exited])))

\* One block of cuid(): length += <block>(..., &result[length], ...)
QuickBlock(s, r) ==
  IF s.exited THEN s
  ELSE [s EXCEPT !.mem = r.mem, !.length = @ + r.length, !.exited = r.exited]

\* The blocks of cuid() and its terminator, value being the value of
\* ++counter; timestamp, host, pid, rand1 and rand2: what the providers
\* return to this call
cuid_blocks(m, value, timestamp, host, pid, rand1, rand2) ==
  Then([mem |-> Store(m, 0, "c"), length |-> 1, exited |-> FALSE], LAMBDA s0 :
  Then(cuid_base36_pad(timestamp, s0.mem, 1, 6, "0"), LAMBDA r1 :
  Then(QuickBlock(s0, r1), LAMBDA s1 :
  Then(cuid_base36_pad(U64FromU32(value), s1.mem, s1.length, 4, "0"), LAMBDA r2 :
  Then(QuickBlock(s1, r2), LAMBDA s2 :
  Then(cuid_get_fingerprint(s2.mem, s2.length, host, pid), LAMBDA r3 :
  Then(QuickBlock(s2, r3), LAMBDA s3 :
    IF s3.exited THEN s3
    ELSE
      Then(cuid_base36_pad(U64FromU32(rand1), s3.mem, s3.length, 4, "0"), LAMBDA r4 :
      Then(QuickBlock(s3, r4), LAMBDA s4 :
      Then(cuid_base36_pad(U64FromU32(rand2), s4.mem, s4.length, 4, "0"), LAMBDA r5 :
      Then(QuickBlock(s4, r5), LAMBDA s5 :
        [s5 EXCEPT !.mem = Store(@, CUID_SIZE - 1, NUL)])))))))))))

\* Mutant: the counter is rendered before it is incremented
cuid_post_increment(m, counter, timestamp, host, pid, rand1, rand2) ==
  Then(cuid_blocks(m, counter, timestamp, host, pid, rand1, rand2), LAMBDA r :
    [mem |-> r.mem, length |-> r.length, exited |-> r.exited,
     counter |-> U32Inc(counter)])

\* counter: the static counter before the call, in a single thread
cuid(m, counter, timestamp, host, pid, rand1, rand2) ==
  Then(cuid_blocks(m, U32Inc(counter), timestamp, host, pid, rand1, rand2),
       LAMBDA r :
    [mem |-> r.mem, length |-> r.length, exited |-> r.exited,
     counter |-> U32Inc(counter)])

(***************************************************************************)
(* Calls on the caller's variables.  Every function of the pure API takes  *)
(* its argument by value and returns the new value; the caller assigns it  *)
(* to a variable dst, or drops it (dst = Dropped).                         *)
(***************************************************************************)
Dropped == 0

Assign(bindings, dst, value) ==
  IF dst \in DOMAIN bindings THEN [bindings EXCEPT ![dst] = value] ELSE bindings

\* Mutant: the parameter aliases the caller's variable (passed by pointer)
PassByReference(bindings, src, dst, result) ==
  Assign(Assign(bindings, src, result), dst, result)

\* The callee worked on its own copy of bindings[src]; only dst changes
PassByValue(bindings, src, dst, result) == Assign(bindings, dst, result)

(***************************************************************************)
(* State                                                                   *)
(***************************************************************************)
VARIABLES
  codec,  \* one codec call: its arguments, the caller's array, what it returned
  call,   \* the latest call of the pure API: function, argument, destination
  cnt,    \* the caller's cuid_counter_t variables
  rng,    \* the caller's mwc_random_t variables
  rng_log,\* per mwc_random_t variable: what its value has read so far
  id,     \* the caller's cuid_t variables
  id_log, \* per cuid_t variable: the calls that produced its value
  quick,  \* quick mode: the static counter, the caller's array, the last call
  got,    \* what the latest read of the pure API returned to the caller
  provider, \* cuid_get_fingerprint called on an array of the caller
  threads \* two threads in cuid(): the static counter and each thread's place

vars == <<codec, call, cnt, rng, rng_log, id, id_log, quick, got, provider, threads>>

codecVars == <<codec>>

counterVars == <<cnt>>

randomVars == <<rng, rng_log>>

cuidVars == <<id, id_log>>

pureVars == <<call, counterVars, randomVars, cuidVars>>

quickVars == <<quick>>

readVars == <<got>>

providerVars == <<provider>>

threadVars == <<threads>>

extraVars == <<readVars, providerVars, threadVars>>

NoCall == [fn |-> "none", src |-> Dropped, dst |-> Dropped]

IdleCodec ==
  codec = [cuid_number |-> U64FromNat(0), pad_length |-> 0, pad_char |-> "0",
           cuid_result |-> Memory(NewArray(CUID_BASE36_RESULT_SIZE, NUL)),
           call |-> "idle", length |-> 0]

IdleCounter == cnt = <<>>

IdleRandom == rng = <<>> /\ rng_log = <<>>

IdleCuid == id = <<>> /\ id_log = <<>>

IdleQuick == quick = [status |-> "idle"]

NoRead == [fn |-> "none", src |-> Dropped, value |-> <<>>, repeat |-> 0]

IdleRead == got = NoRead

IdleProvider == provider = [status |-> "idle"]

IdleThreads == threads = [status |-> "idle"]

IdleExtra == IdleRead /\ IdleProvider /\ IdleThreads

(***************************************************************************)
(* Inputs                                                                  *)
(***************************************************************************)
MaxSmall == 40

Numbers64 ==
  {U64FromNat(n) : n \in 0..MaxSmall}
    \cup {U64FromNat(128), U64FromNat(12345), U64FromNat(1234567890),
          U64FromNat(123456789), U64FromNat(223456789)}
    \cup {Pow36(k) : k \in 1..12}
    \cup {U64Dec(Pow36(k)) : k \in 1..12}
    \cup {U64FromU32(U32Max), U64Inc(U64FromU32(U32Max)), U64Max}

\* pad_length is a uint8_t
PadLengths == 0..(CUID_BASE36_RESULT_SIZE + 1) \cup {2^8 - 1}

PadChars == {"0", "z"}

\* What the caller's array holds before the call
Fills == {NUL, "?"}

(***************************************************************************)
(* The codec called on a caller's array of CUID_BASE36_RESULT_SIZE chars   *)
(***************************************************************************)
InitCodec ==
  /\ call = NoCall
  /\ IdleCounter
  /\ IdleRandom
  /\ IdleCuid
  /\ IdleQuick
  /\ IdleExtra
  /\ codec \in [cuid_number : Numbers64,
             pad_length : PadLengths,
             pad_char : PadChars,
             cuid_result : {Memory(NewArray(CUID_BASE36_RESULT_SIZE, f)) : f \in Fills},
             call : {"none"},
             length : {0}]

CallBase36 ==
  /\ codec.call = "none"
  /\ LET r == cuid_base36(codec.cuid_number, codec.cuid_result, 0)
     IN  codec' = [codec EXCEPT !.cuid_result = r.mem,
                                !.length = r.length,
                                !.call = "cuid_base36"]
  /\ UNCHANGED <<pureVars, quickVars, extraVars>>

CallBase36Pad ==
  /\ codec.call = "none"
  /\ LET r == cuid_base36_pad(codec.cuid_number, codec.cuid_result, 0,
                              codec.pad_length, codec.pad_char)
     IN  codec' = [codec EXCEPT !.cuid_result = r.mem,
                                !.length = r.length,
                                !.call = IF r.exited THEN "exit"
                                         ELSE "cuid_base36_pad"]
  /\ UNCHANGED <<pureVars, quickVars, extraVars>>

NextCodec == CallBase36 \/ CallBase36Pad

SpecCodec == InitCodec /\ [][NextCodec]_vars

(***************************************************************************)
(* The counter functions called on two variables, counter1 and counter2,   *)
(* as in test_has_counter.  The variables start holding any counter value: *)
(* a counter that was advanced few times, or almost 2^32 times.            *)
(***************************************************************************)
MaxCount == 3

CounterBindings == {1, 2}

CounterValues ==
  {U32FromNat(n) : n \in 0..MaxCount}
    \cup {<<Limb - 1, Limb - 1 - n>> : n \in 0..MaxCount}

InitCounter ==
  /\ IdleCodec
  /\ call = NoCall
  /\ IdleRandom
  /\ IdleCuid
  /\ IdleQuick
  /\ IdleExtra
  /\ cnt \in [CounterBindings -> {[value |-> v] : v \in CounterValues}]

CounterCreate(dst) ==
  /\ cnt' = Assign(cnt, dst, cuid_create_counter)
  /\ call' = [fn |-> "cuid_create_counter", src |-> Dropped, dst |-> dst]
  /\ UNCHANGED <<codecVars, randomVars, cuidVars, quickVars, extraVars>>

CounterInit(src, dst) ==
  /\ cnt' = PassByValue(cnt, src, dst, cuid_init_counter(cnt[src]))
  /\ call' = [fn |-> "cuid_init_counter", src |-> src, dst |-> dst]
  /\ UNCHANGED <<codecVars, randomVars, cuidVars, quickVars, extraVars>>

\* The guard keeps the values inside CounterValues
CounterInc(src, dst) ==
  /\ cuid_inc_counter(cnt[src]).value \in CounterValues
  /\ cnt' = PassByValue(cnt, src, dst, cuid_inc_counter(cnt[src]))
  /\ call' = [fn |-> "cuid_inc_counter", src |-> src, dst |-> dst]
  /\ UNCHANGED <<codecVars, randomVars, cuidVars, quickVars, extraVars>>

NextCounter ==
  \/ \E dst \in DOMAIN cnt \cup {Dropped} : CounterCreate(dst)
  \/ \E src \in DOMAIN cnt, dst \in DOMAIN cnt \cup {Dropped} : CounterInit(src, dst)
  \/ \E src \in DOMAIN cnt, dst \in DOMAIN cnt \cup {Dropped} : CounterInc(src, dst)

SpecCounter == InitCounter /\ [][NextCounter]_vars

(***************************************************************************)
(* The generator functions called on the caller's mwc_random_t variables,  *)
(* as in test_has_random.  rng_log[b] follows the value held by variable   *)
(* b: steps is the number of mwc_next_random calls since the latest        *)
(* mwc_create or mwc_init, reset says that an mwc_init came after the      *)
(* mwc_create, and first[j + 1] is what the value read j calls after its   *)
(* mwc_create, before any mwc_init.                                        *)
(***************************************************************************)
MaxAdvance == 3

\* What the seed source returns to the loop of mwc_initial_c
CarryDraws ==
  {<<U32FromNat(5)>>,
   <<U32FromNat(MWC_C_MAX), U32FromNat(MWC_C_MAX - 1)>>,
   <<U32Max, U32FromNat(MWC_C_MAX), U32FromNat(18781)>>}

\* draws: what the seed source returned to the loop of mwc_initial_c
LogCreate(r, draws) ==
  [steps |-> 0, reset |-> FALSE, first |-> <<mwc_read_random(r)>>,
   draws |-> draws]

LogInit(log) == [log EXCEPT !.steps = 0, !.reset = TRUE]

LogNext(log, r) ==
  [log EXCEPT !.steps = @ + 1,
              !.first = IF log.reset THEN @ ELSE Append(@, mwc_read_random(r))]

InitRandomWith(bindings, draws, streams) ==
  /\ IdleCodec
  /\ IdleCounter
  /\ IdleCuid
  /\ IdleQuick
  /\ IdleExtra
  /\ call = NoCall
  /\ \E made \in [bindings -> draws \X streams] :
       /\ rng = [b \in bindings |-> mwc_create(made[b][1], made[b][2])]
       /\ rng_log = [b \in bindings |-> LogCreate(rng[b], made[b][1])]

InitRandom == InitRandomWith({1}, CarryDraws, SeedStreams)

RandomCreate(dst, draws, stream) ==
  LET r == mwc_create(draws, stream)
  IN  /\ rng' = Assign(rng, dst, r)
      /\ rng_log' = Assign(rng_log, dst, LogCreate(r, draws))
      /\ call' = [fn |-> "mwc_create", src |-> Dropped, dst |-> dst]
      /\ UNCHANGED <<codecVars, counterVars, cuidVars, quickVars, extraVars>>

RandomInit(src, dst) ==
  /\ rng' = PassByValue(rng, src, dst, mwc_init(rng[src]))
  /\ rng_log' = Assign(rng_log, dst, LogInit(rng_log[src]))
  /\ call' = [fn |-> "mwc_init", src |-> src, dst |-> dst]
  /\ UNCHANGED <<codecVars, counterVars, cuidVars, quickVars, extraVars>>

\* The guard bounds the number of advances
RandomNext(src, dst) ==
  /\ rng_log[src].steps < MaxAdvance
  /\ LET r == mwc_next_random(rng[src])
     IN  /\ rng' = PassByValue(rng, src, dst, r)
         /\ rng_log' = Assign(rng_log, dst, LogNext(rng_log[src], r))
  /\ call' = [fn |-> "mwc_next_random", src |-> src, dst |-> dst]
  /\ UNCHANGED <<codecVars, counterVars, cuidVars, quickVars, extraVars>>

NextRandomWith(draws, streams) ==
  \/ \E dst \in DOMAIN rng \cup {Dropped}, d \in draws, s \in streams :
       RandomCreate(dst, d, s)
  \/ \E src \in DOMAIN rng, dst \in DOMAIN rng \cup {Dropped} : RandomInit(src, dst)
  \/ \E src \in DOMAIN rng, dst \in DOMAIN rng \cup {Dropped} : RandomNext(src, dst)

NextRandom == NextRandomWith(CarryDraws, SeedStreams)

SpecRandom == InitRandom /\ [][NextRandom]_vars

(***************************************************************************)
(* Specification of the generator functions on a table the seed source     *)
(* filled with any of three streams, one of them with the word in slot     *)
(* 4095 that the first advance computes from slot 0 and carry 5.           *)
(***************************************************************************)
RepeatStreams == SeedStreams \cup {"repeating"}

InitRepeat == InitRandomWith({1}, CarryDraws, RepeatStreams)

NextRepeat == NextRandomWith(CarryDraws, RepeatStreams)

SpecRepeat == InitRepeat /\ [][NextRepeat]_vars

(***************************************************************************)
(* Specification of the loops, one iteration a step: a process calls       *)
(* mwc_create, which draws a carry in the do-while loop of mwc_initial_c   *)
(* and fills the table slot by slot, and then cuid_base36, which divides   *)
(* the number digit by digit.  call.fn is the loop the process is in, or   *)
(* the function that returned.  The draws rejected beyond MaxRejects are   *)
(* not recorded.                                                           *)
(***************************************************************************)
MaxRejects == 2

\* What the seed source returns to the loop of mwc_initial_c
LoopDraws == {U32FromNat(5), U32FromNat(MWC_C_MAX - 1), U32FromNat(MWC_C_MAX)}

LoopNumbers == {U64FromNat(0), U64FromNat(12345), Pow36(12), U64Max}

InSeedLoop == call.fn = "mwc_initial_c loop"

InFillLoop == call.fn = "mwc_create loop"

InDigitLoop == call.fn = "cuid_base36 loop"

InitLoops ==
  /\ IdleCodec
  /\ IdleCounter
  /\ IdleRandom
  /\ IdleCuid
  /\ IdleQuick
  /\ IdleExtra
  /\ call = NoCall

CreateCall ==
  /\ call = NoCall
  /\ call' = [fn |-> "mwc_initial_c loop", src |-> Dropped, dst |-> 1]
  /\ rng_log' = [b \in {1} |-> [draws |-> <<>>, filled |-> 0]]
  /\ UNCHANGED <<rng, codecVars, counterVars, cuidVars, quickVars, extraVars>>

\* A draw at or above MWC_C_MAX: the loop goes round
SeedReject(draw) ==
  /\ InSeedLoop
  /\ mwc_initial_c_again(draw)
  /\ rng_log' = [rng_log EXCEPT ![1].draws =
                   IF Len(@) < MaxRejects THEN Append(@, draw) ELSE @]
  /\ UNCHANGED <<call, rng, codecVars, counterVars, cuidVars, quickVars,
                 extraVars>>

\* A draw below MWC_C_MAX: mwc_initial_c returns it
SeedAccept(draw) ==
  /\ InSeedLoop
  /\ ~mwc_initial_c_again(draw)
  /\ rng_log' = [rng_log EXCEPT ![1].draws = Append(@, draw)]
  /\ call' = [call EXCEPT !.fn = "mwc_create loop"]
  /\ UNCHANGED <<rng, codecVars, counterVars, cuidVars, quickVars, extraVars>>

\* One iteration of the for loop of mwc_create
SeedFill ==
  /\ InFillLoop
  /\ rng_log[1].filled < MWC_CYCLE
  /\ rng_log' = [rng_log EXCEPT ![1].filled = @ + 1]
  /\ UNCHANGED <<call, rng, codecVars, counterVars, cuidVars, quickVars,
                 extraVars>>

CreateReturn(stream) ==
  /\ InFillLoop
  /\ rng_log[1].filled = MWC_CYCLE
  /\ LET r == mwc_create(rng_log[1].draws, stream)
     IN  /\ rng' = [b \in {1} |-> r]
         /\ rng_log' = [b \in {1} |-> LogCreate(r, rng_log[1].draws)]
  /\ call' = [call EXCEPT !.fn = "mwc_create"]
  /\ UNCHANGED <<codecVars, counterVars, cuidVars, quickVars, extraVars>>

\* cuid_base36 called once mwc_create has returned, on the word read from
\* the generator or on another number
EncodeCall(n) ==
  /\ call.fn = "mwc_create"
  /\ codec' = [cuid_number |-> n, pad_length |-> 0, pad_char |-> "0",
               cuid_result |-> Memory(NewArray(CUID_BASE36_RESULT_SIZE, NUL)),
               call |-> "cuid_base36", length |-> 0, left |-> n,
               cuid_inverted_result |-> NewArray(CUID_BASE36_RESULT_SIZE, NUL)]
  /\ call' = [fn |-> "cuid_base36 loop", src |-> Dropped, dst |-> Dropped]
  /\ UNCHANGED <<counterVars, randomVars, cuidVars, quickVars, extraVars>>

\* One iteration of the do-while loop of cuid_base36 and, when its test
\* fails, the for loop that copies the cuid_length digits most significant
\* first, the terminator and the return
EncodeStep ==
  /\ InDigitLoop
  /\ LET dm == U64DivMod(codec.left, base)
         inverted == [codec.cuid_inverted_result EXCEPT
                        ![codec.length] = cuid_radix36_table[dm.rem + 1]]
         length == codec.length + 1
     IN  IF cuid_base36_again(dm.quot, length)
         THEN /\ codec' = [codec EXCEPT !.left = dm.quot,
                                        !.cuid_inverted_result = inverted,
                                        !.length = length]
              /\ UNCHANGED call
         ELSE /\ codec' = [codec EXCEPT
                             !.left = dm.quot,
                             !.cuid_inverted_result = inverted,
                             !.length = length,
                             !.cuid_result =
                               [bytes |-> [i \in DOMAIN @.bytes |->
                                             IF i < length
                                             THEN inverted[length - 1 - i]
                                             ELSE IF i = length THEN NUL
                                             ELSE @.bytes[i]],
                                written |-> @.written \cup 0..length]]
              /\ call' = [call EXCEPT !.fn = "cuid_base36"]
  /\ UNCHANGED <<counterVars, randomVars, cuidVars, quickVars, extraVars>>

NextLoops ==
  \/ CreateCall
  \/ \E draw \in LoopDraws : SeedReject(draw)
  \/ \E draw \in LoopDraws : SeedAccept(draw)
  \/ SeedFill
  \/ CreateReturn("mixed")
  \/ \E n \in LoopNumbers \cup {U64FromU32(mwc_read_random(rng[b])) : b \in DOMAIN rng} :
       EncodeCall(n)
  \/ EncodeStep

\* The process keeps running, and the seed source returns a value below
\* MWC_C_MAX at some point
FairLoops ==
  /\ WF_vars(SeedFill)
  /\ WF_vars(CreateReturn("mixed"))
  /\ WF_vars(EncodeStep)
  /\ WF_vars(\E draw \in LoopDraws : SeedAccept(draw))

SpecLoops == InitLoops /\ [][NextLoops]_vars /\ FairLoops

(***************************************************************************)
(* Specification of the identifier context: cuid_create, cuid_init and     *)
(* cuid_next on the caller's cuid_t variables, cuid_read on their values.  *)
(***************************************************************************)
\* The fingerprint arrays handed to cuid_create
Fingerprints ==
  {[i \in 0..(CUID_FINGERPRINT_SIZE - 1) |-> <<"f", "i", "n", "g", NUL>>[i + 1]],
   [i \in 0..(CUID_FINGERPRINT_SIZE - 1) |-> <<"a", "b", NUL, NUL, NUL>>[i + 1]]}

\* What the seed source returns to the two generators of one cuid_create
CuidSeeds ==
  {[draws1 |-> <<U32FromNat(5)>>, stream1 |-> "mixed",
    draws2 |-> <<U32Max, U32FromNat(MWC_C_MAX), U32FromNat(18781)>>,
    stream2 |-> "ones"],
   [draws1 |-> <<U32FromNat(MWC_C_MAX), U32FromNat(MWC_C_MAX - 1)>>,
    stream1 |-> "ones",
    draws2 |-> <<U32FromNat(5)>>, stream2 |-> "mixed"],
   [draws1 |-> <<U32FromNat(5)>>, stream1 |-> "mixed",
    draws2 |-> <<U32FromNat(5)>>, stream2 |-> "mixed"]}

\* The timestamps handed to cuid_init and cuid_next
Stamps ==
  {U64FromNat(123456789), U64FromNat(223456789),
   U64Dec(Pow36(CUID_TIMESTAMP_LENGTH)), Pow36(CUID_TIMESTAMP_LENGTH), U64Max}

TimestampBlock(c) == Chars(c.cuid_value, 1, CUID_TIMESTAMP_LENGTH)

\* The state of a context: Created until its first cuid_init, Initialized
\* by cuid_init, Advanced by cuid_next
Phase(log) ==
  IF ~log.rendered THEN "Created"
  ELSE IF log.initialized /\ log.advances = U64FromNat(0) THEN "Initialized"
  ELSE "Advanced"

\* from: the state of the context the latest call was made on
CuidLogCreate(fingerprint) ==
  [fingerprint |-> fingerprint, initialized |-> FALSE, rendered |-> FALSE,
   advances |-> U64FromNat(0), steps |-> 0, timestamp |-> U64FromNat(0),
   prev |-> <<>>, from |-> "none"]

\* prev: timestamp and timestamp block of the identifier rendered before
CuidLogPrev(log, c) ==
  IF log.rendered
  THEN <<[timestamp |-> log.timestamp, block |-> TimestampBlock(c)]>>
  ELSE <<>>

CuidLogInit(log, c, timestamp) ==
  [log EXCEPT !.initialized = TRUE, !.rendered = TRUE,
              !.advances = U64FromNat(0), !.steps = 0,
              !.timestamp = timestamp, !.prev = CuidLogPrev(log, c),
              !.from = Phase(log)]

CuidLogNext(log, c, timestamp) ==
  [log EXCEPT !.rendered = TRUE, !.advances = U64Inc(@), !.steps = @ + 1,
              !.timestamp = timestamp, !.prev = CuidLogPrev(log, c),
              !.from = Phase(log)]

\* A context that has been advanced 2^32 - 2 times since cuid_init.  The
\* words its generators hold by then are not computed: the generators of
\* the initialised context stand for them.
LongRunAdvances == U64Dec(U64FromU32(U32Max))

LongRunning(c) ==
  ByValue(cuid_gen_value_string,
    [c EXCEPT !.cuid_counter = [value |-> U32FromU64(LongRunAdvances)]])

InitCuidWith(bindings, fingerprints, seeds, stamps, runs) ==
  /\ IdleCodec
  /\ IdleCounter
  /\ IdleRandom
  /\ IdleQuick
  /\ IdleExtra
  /\ call = NoCall
  /\ \E long \in runs :
       IF long
       THEN \E run \in [bindings -> fingerprints \X seeds \X stamps] :
              /\ id = [b \in bindings |->
                         LongRunning(cuid_init(cuid_create(run[b][1], run[b][2]),
                                               run[b][3]))]
              /\ id_log = [b \in bindings |->
                             [fingerprint |-> run[b][1], initialized |-> TRUE,
                              rendered |-> TRUE, advances |-> LongRunAdvances,
                              steps |-> 0, timestamp |-> run[b][3],
                              prev |-> <<>>, from |-> "Advanced"]]
       ELSE \E made \in [bindings -> fingerprints \X seeds] :
              /\ id = [b \in bindings |-> cuid_create(made[b][1], made[b][2])]
              /\ id_log = [b \in bindings |-> CuidLogCreate(made[b][1])]

InitCuid == InitCuidWith({1}, Fingerprints, CuidSeeds, Stamps, BOOLEAN)

\* The process ended inside a call of the context API
CuidExit(src, dst) ==
  /\ call' = [fn |-> "CUID_EXIT", src |-> src, dst |-> dst]
  /\ UNCHANGED cuidVars

CuidCreate(dst, fingerprint, seed) ==
  /\ call.fn # "CUID_EXIT"
  /\ \E result \in {cuid_create(fingerprint, seed)} : id' = Assign(id, dst, result)
  /\ id_log' = Assign(id_log, dst, CuidLogCreate(fingerprint))
  /\ call' = [fn |-> "cuid_create", src |-> Dropped, dst |-> dst]
  /\ UNCHANGED <<codecVars, counterVars, randomVars, quickVars, extraVars>>

CuidInit(src, dst, timestamp) ==
  /\ call.fn # "CUID_EXIT"
  /\ IF cuid_render_exits THEN CuidExit(src, dst)
     ELSE
       /\ \E result \in {cuid_init(id[src], timestamp)} :
            id' = PassByValue(id, src, dst, result)
       /\ id_log' = Assign(id_log, dst,
                           CuidLogInit(id_log[src], id[src], timestamp))
       /\ call' = [fn |-> "cuid_init", src |-> src, dst |-> dst]
  /\ UNCHANGED <<codecVars, counterVars, randomVars, quickVars, extraVars>>

\* The guard bounds the number of advances
CuidNext(src, dst, timestamp) ==
  /\ call.fn # "CUID_EXIT"
  /\ id_log[src].steps < MaxAdvance
  /\ IF cuid_render_exits THEN CuidExit(src, dst)
     ELSE
       /\ \E result \in {cuid_next(id[src], timestamp)} :
            id' = PassByValue(id, src, dst, result)
       /\ id_log' = Assign(id_log, dst,
                           CuidLogNext(id_log[src], id[src], timestamp))
       /\ call' = [fn |-> "cuid_next", src |-> src, dst |-> dst]
  /\ UNCHANGED <<codecVars, counterVars, randomVars, quickVars, extraVars>>

NextCuidWith(dsts, fingerprints, seeds, stamps) ==
  \/ \E dst \in dsts, f \in fingerprints, s \in seeds : CuidCreate(dst, f, s)
  \/ \E src \in DOMAIN id, dst \in dsts, t \in stamps : CuidInit(src, dst, t)
  \/ \E src \in DOMAIN id, dst \in dsts, t \in stamps : CuidNext(src, dst, t)

NextCuid == NextCuidWith({1}, Fingerprints, CuidSeeds, Stamps)

SpecCuid == InitCuid /\ [][NextCuid]_vars

(***************************************************************************)
(* Specification of the calls of the pure API on two variables of the      *)
(* caller: two counters, two generators or two contexts, each call's       *)
(* result assigned to either variable or dropped.                          *)
(***************************************************************************)
ValueBindings == {1, 2}

ValueDraws == {<<U32FromNat(5)>>}

ValueSeeds ==
  {[draws1 |-> <<U32FromNat(5)>>, stream1 |-> "mixed",
    draws2 |-> <<U32FromNat(MWC_C_MAX), U32FromNat(MWC_C_MAX - 1)>>,
    stream2 |-> "ones"]}

ValueFingerprints ==
  {[i \in 0..(CUID_FINGERPRINT_SIZE - 1) |-> <<"f", "i", "n", "g", NUL>>[i + 1]]}

ValueStamps == {U64FromNat(123456789)}

InitValue ==
  \/ InitCounter
  \/ InitRandomWith(ValueBindings, ValueDraws, SeedStreams)
  \/ InitCuidWith(ValueBindings, ValueFingerprints, ValueSeeds, ValueStamps, {FALSE})

NextValue ==
  \/ NextCounter
  \/ NextRandomWith(ValueDraws, SeedStreams)
  \/ NextCuidWith(DOMAIN id \cup {Dropped}, ValueFingerprints, ValueSeeds,
                  ValueStamps)

SpecValue == InitValue /\ [][NextValue]_vars

(***************************************************************************)
(* Specification of the reads of the pure API: cuid_read_counter,          *)
(* mwc_read_random and cuid_read called on the caller's variables between  *)
(* the calls that make new values.  got holds what the latest read         *)
(* returned (for cuid_read, the caller's destination array) and repeat,    *)
(* the number of reads of the same variable in a row.                      *)
(***************************************************************************)
MaxReads == 2

ReadBindings == {1}

Repeat(fn, src) ==
  IF call.fn = fn /\ call.src = src /\ got.fn = fn THEN got.repeat + 1 ELSE 1

Read(fn, src, value) ==
  /\ Repeat(fn, src) <= MaxReads
  /\ got' = [fn |-> fn, src |-> src, value |-> value, repeat |-> Repeat(fn, src)]
  /\ call' = [fn |-> fn, src |-> src, dst |-> Dropped]

CounterRead(src) ==
  /\ Read("cuid_read_counter", src, cuid_read_counter(cnt[src]))
  /\ UNCHANGED <<codecVars, counterVars, randomVars, cuidVars, quickVars,
                 providerVars, threadVars>>

RandomRead(src) ==
  /\ Read("mwc_read_random", src, mwc_read_random(rng[src]))
  /\ UNCHANGED <<codecVars, counterVars, randomVars, cuidVars, quickVars,
                 providerVars, threadVars>>

CuidRead(src) ==
  /\ call.fn # "CUID_EXIT"
  /\ Read("cuid_read", src, cuid_read(id[src]))
  /\ UNCHANGED <<codecVars, counterVars, randomVars, cuidVars, quickVars,
                 providerVars, threadVars>>

InitRead ==
  \/ InitCounter
  \/ InitRandomWith(ReadBindings, ValueDraws, SeedStreams)
  \/ InitCuidWith(ReadBindings, ValueFingerprints, ValueSeeds, ValueStamps, {FALSE})

NextRead ==
  \/ NextCounter
  \/ NextRandomWith(ValueDraws, SeedStreams)
  \/ NextCuidWith(DOMAIN id \cup {Dropped}, ValueFingerprints, ValueSeeds,
                  ValueStamps)
  \/ \E src \in DOMAIN cnt : CounterRead(src)
  \/ \E src \in DOMAIN rng : RandomRead(src)
  \/ \E src \in DOMAIN id : CuidRead(src)

SpecRead == InitRead /\ [][NextRead]_vars

(***************************************************************************)
(* Specification of long runs of one context: cuid_next called on a        *)
(* context that has been advanced 2^32 - 2 times, one call at a time or    *)
(* many calls in a row, the caller keeping a copy of an identifier on the  *)
(* way.  No cuid_create and no cuid_init is called.  got holds the copy    *)
(* and the number of advances the context had been through when it was     *)
(* made.                                                                   *)
(***************************************************************************)
\* The counter block of an identifier
IdCounterBlock(value) ==
  Chars(value, 1 + CUID_TIMESTAMP_LENGTH, CUID_BLOCK_LENGTH)

\* The number of counter blocks: 36^4
Blocks == base * base * base * base

\* The number of cuid_next calls after which a counter that passed from
\* 2^32 - 1 to 0 on the way shows its block again: 2^32 modulo 36^4,
\* computed as 2^16 * 2^8 * 2^8
WrapDistance == (((Limb * 256) % Blocks) * 256) % Blocks

\* The lengths of the runs of cuid_next calls
RunLengths == {WrapDistance - 1, WrapDistance, Blocks - 1}

\* n cuid_next calls in a row, the last one with the given timestamp.  The
\* words the generators hold by then are not computed: the generators of
\* the context stand for them.
cuid_next_times(c, n, timestamp) ==
  ByValue(cuid_gen_value_string,
    [c EXCEPT !.cuid_counter = [value |-> U32Add(c.cuid_counter.value,
                                                 U32FromNat(n))],
              !.cuid_timestamp = PadField(timestamp, c.cuid_timestamp,
                                          CUID_TIMESTAMP_LENGTH, "0")])

\* The guard bounds the runs of a context to one
CuidRun(src, n, timestamp) ==
  /\ call.fn # "CUID_EXIT"
  /\ U64Leq(id_log[src].advances,
            U64Add(LongRunAdvances, U64FromNat(MaxAdvance)))
  /\ IF cuid_render_exits THEN CuidExit(src, src)
     ELSE
       /\ \E result \in {cuid_next_times(id[src], n, timestamp)} :
            id' = PassByValue(id, src, src, result)
       /\ id_log' = Assign(id_log, src,
                           [CuidLogNext(id_log[src], id[src], timestamp)
                              EXCEPT !.advances = U64Add(id_log[src].advances,
                                                         U64FromNat(n)),
                                     !.steps = id_log[src].steps])
       /\ call' = [fn |-> "cuid_next", src |-> src, dst |-> src]
  /\ UNCHANGED <<codecVars, counterVars, randomVars, quickVars, extraVars>>

CuidKeep(src) ==
  /\ call.fn # "CUID_EXIT"
  /\ got' = [fn |-> "cuid_read", src |-> src, value |-> cuid_read(id[src]),
             repeat |-> 1, advances |-> id_log[src].advances]
  /\ call' = [fn |-> "cuid_read", src |-> src, dst |-> Dropped]
  /\ UNCHANGED <<codecVars, counterVars, randomVars, cuidVars, quickVars,
                 providerVars, threadVars>>

InitApart ==
  InitCuidWith(ReadBindings, ValueFingerprints, CuidSeeds, ValueStamps, {TRUE})

NextApart ==
  \/ \E src \in DOMAIN id, t \in ValueStamps : CuidNext(src, src, t)
  \/ \E src \in DOMAIN id, n \in RunLengths, t \in ValueStamps :
       CuidRun(src, n, t)
  \/ \E src \in DOMAIN id : CuidKeep(src)

SpecApart == InitApart /\ [][NextApart]_vars

(***************************************************************************)
(* Specification of re-initialisation: cuid_init and cuid_next on two      *)
(* variables of the caller that hold the results of cuid_create, with two  *)
(* seedings and two timestamps, each call's result assigned to either      *)
(* variable.                                                               *)
(***************************************************************************)
ReplaySeeds ==
  {[draws1 |-> <<U32FromNat(5)>>, stream1 |-> "mixed",
    draws2 |-> <<U32FromNat(MWC_C_MAX), U32FromNat(MWC_C_MAX - 1)>>,
    stream2 |-> "ones"],
   [draws1 |-> <<U32FromNat(5)>>, stream1 |-> "mixed",
    draws2 |-> <<U32FromNat(5)>>, stream2 |-> "mixed"]}

ReplayStamps == {U64FromNat(123456789), U64FromNat(223456789)}

InitReplay ==
  InitCuidWith(ValueBindings, ValueFingerprints, ReplaySeeds, ReplayStamps,
               {FALSE})

NextReplay ==
  \/ \E src \in DOMAIN id, dst \in DOMAIN id, t \in ReplayStamps :
       CuidInit(src, dst, t)
  \/ \E src \in DOMAIN id, dst \in DOMAIN id, t \in ValueStamps :
       CuidNext(src, dst, t)

SpecReplay == InitReplay /\ [][NextReplay]_vars

(***************************************************************************)
(* Specification of quick mode: calls of cuid(result) on one array of the  *)
(* caller.                                                                 *)
(***************************************************************************)
MaxCalls == 2

\* The last block starts at result[19] and cuid_base36_pad declares 16 bytes
\* there: the memory of the model is the array and the bytes that follow it
QuickExtent == CUID_SIZE - 1 - CUID_BLOCK_LENGTH + CUID_BASE36_RESULT_SIZE

\* The static counter: at program start, after 36^4 - 2 calls and after
\* 2^32 - 2 calls
QuickCounters ==
  {U32Zero, U32FromU64(U64Dec(U64Dec(Pow36(CUID_BLOCK_LENGTH)))),
   U32FromU64(LongRunAdvances)}

\* The counter block of the identifier in the caller's array
CounterBlock(q) ==
  Chars(q.result.bytes, 1 + CUID_TIMESTAMP_LENGTH, CUID_BLOCK_LENGTH)

QuickStamps == {U64FromNat(123456789), U64Max}

\* What gethostname returns and what it leaves in the words of the union
Hosts ==
  {[error_code |-> 0, values |-> [i \in 0..(CUID_HOSTNAME_LENGTH \div 4 - 1) |-> U32Zero]],
   [error_code |-> 0, values |-> [i \in 0..(CUID_HOSTNAME_LENGTH \div 4 - 1) |-> U32Max]],
   [error_code |-> -1,
    values |-> [i \in 0..(CUID_HOSTNAME_LENGTH \div 4 - 1) |-> U32Zero]]}

Pids == {U64FromNat(1), U64FromNat(4194304)}

\* 36^4 - 1 is the largest draw of four digits
Draws1 == {U32FromNat(35), U32Max}

Draws2 == {U32FromU64(U64Dec(Pow36(CUID_BLOCK_LENGTH))),
           U32FromU64(Pow36(CUID_BLOCK_LENGTH)), U32Max}

InsideArray(written) == written \subseteq 0..(CUID_SIZE - 1)

InitQuick ==
  /\ IdleCodec
  /\ IdleCounter
  /\ IdleRandom
  /\ IdleCuid
  /\ IdleExtra
  /\ call = NoCall
  /\ \E counter \in QuickCounters, fill \in Fills :
       quick = [status |-> "ready", counter |-> counter,
                result |-> Memory(NewArray(QuickExtent, fill)),
                length |-> 0, calls |-> 0, made |-> U64FromU32(counter)]

\* A write outside the array is undefined behaviour: the call returns with
\* the bytes after the array overwritten, or the process is aborted.  The
\* guard bounds the number of calls.  made is the number of calls of cuid()
\* since the process started and before, the counter block the call before
\* this one left in the array.
QuickCuid(timestamp, host, pid, rand1, rand2) ==
  /\ quick.status \in {"ready", "returned"}
  /\ quick.calls < MaxCalls
  /\ \E r \in {cuid(Memory(quick.result.bytes), quick.counter, timestamp, host,
                     pid, rand1, rand2)} :
       \E status \in IF r.exited THEN {"exit"}
                      ELSE IF InsideArray(r.mem.written) THEN {"returned"}
                      ELSE {"returned", "aborted"} :
         quick' = [status |-> status, counter |-> r.counter, result |-> r.mem,
                   length |-> r.length, calls |-> quick.calls + 1,
                   made |-> U64Inc(quick.made),
                   before |-> IF quick.status = "returned"
                              THEN CounterBlock(quick) ELSE <<>>,
                   timestamp |-> timestamp, host |-> host, pid |-> pid,
                   rand1 |-> rand1, rand2 |-> rand2]
  /\ UNCHANGED <<codecVars, pureVars, extraVars>>

NextQuick ==
  \E timestamp \in QuickStamps, host \in Hosts, pid \in Pids,
     rand1 \in Draws1, rand2 \in Draws2 :
    QuickCuid(timestamp, host, pid, rand1, rand2)

SpecQuick == InitQuick /\ [][NextQuick]_vars

(***************************************************************************)
(* Specification of two threads, each calling cuid() once on an array of   *)
(* its own.  The static counter is the only cell both calls touch, and     *)
(* ++counter is a load, an addition and a store with nothing to order      *)
(* them across threads.  The writes of a call go to the thread's own       *)
(* array: they are made in the step that ends the call.  The race on the   *)
(* counter is undefined behaviour: the counter block renders the value the *)
(* thread stored, or the value the counter holds when the block is         *)
(* rendered.                                                               *)
(***************************************************************************)
Threads == {1, 2}

ThreadHost ==
  [error_code |-> 0,
   values |-> [i \in 0..(CUID_HOSTNAME_LENGTH \div 4 - 1) |-> U32Zero]]

ThreadDraws2 == {U32FromU64(U64Dec(Pow36(CUID_BLOCK_LENGTH))), U32Max}

\* Mutant: counter++, the value before the increment
IncrementValue_post(tmp, counter) == {tmp}

\* The values ++counter can have in the thread that loaded tmp
IncrementValue(tmp, counter) == {U32Inc(tmp), counter}

InitThreads ==
  /\ IdleCodec
  /\ IdleCounter
  /\ IdleRandom
  /\ IdleCuid
  /\ IdleQuick
  /\ IdleRead
  /\ IdleProvider
  /\ call = NoCall
  /\ \E counter \in QuickCounters, fill \in Fills :
       threads = [status |-> "running", start |-> counter, counter |-> counter,
                  thread |-> [t \in Threads |->
                                [pc |-> "called", tmp |-> U32Zero,
                                 value |-> U32Zero,
                                 result |-> Memory(NewArray(QuickExtent, fill)),
                                 length |-> 0]]]

ThreadLoad(t) ==
  /\ threads.status = "running"
  /\ threads.thread[t].pc = "called"
  /\ threads' = [threads EXCEPT !.thread[t].pc = "loaded",
                                !.thread[t].tmp = threads.counter]
  /\ UNCHANGED <<codecVars, pureVars, quickVars, readVars, providerVars>>

ThreadStore(t) ==
  /\ threads.status = "running"
  /\ threads.thread[t].pc = "loaded"
  /\ threads' = [threads EXCEPT !.thread[t].pc = "stored",
                                !.counter = U32Inc(threads.thread[t].tmp)]
  /\ UNCHANGED <<codecVars, pureVars, quickVars, readVars, providerVars>>

ThreadReturn(t, timestamp, pid, rand1, rand2) ==
  /\ threads.status = "running"
  /\ threads.thread[t].pc = "stored"
  /\ \E value \in IncrementValue(threads.thread[t].tmp, threads.counter) :
       \E r \in {cuid_blocks(Memory(threads.thread[t].result.bytes), value,
                             timestamp, ThreadHost, pid, rand1, rand2)} :
         \E status \in IF InsideArray(r.mem.written) THEN {"running"}
                        ELSE {"running", "aborted"} :
           threads' = [threads EXCEPT
                         !.status = status,
                         !.thread[t].pc =
                           IF status = "running" THEN "returned" ELSE "aborted",
                         !.thread[t].value = value,
                         !.thread[t].result = r.mem,
                         !.thread[t].length = r.length]
  /\ UNCHANGED <<codecVars, pureVars, quickVars, readVars, providerVars>>

NextThreads ==
  \/ \E t \in Threads : ThreadLoad(t)
  \/ \E t \in Threads : ThreadStore(t)
  \/ \E t \in Threads, rand2 \in ThreadDraws2 :
       ThreadReturn(t, U64FromNat(123456789), U64FromNat(1), U32FromNat(35), rand2)

SpecThreads == InitThreads /\ [][NextThreads]_vars

(***************************************************************************)
(* Specification of the fingerprint provider called on an array of the     *)
(* caller, as in test_fingerprint.  The interface declares 5 bytes; the    *)
(* memory of the model is the array and the bytes that follow it, up to    *)
(* the 16 bytes cuid_base36_pad declares at result[2].  before is the      *)
(* output of the call before this one.                                     *)
(***************************************************************************)
ProviderExtent == 2 + CUID_BASE36_RESULT_SIZE

\* The words of a host name of one word ("ab" on a little-endian machine is
\* 97 + 98 * 256), padded with zero bytes
OneWord(word) ==
  [i \in 0..(CUID_HOSTNAME_LENGTH \div 4 - 1) |->
     IF i = 0 THEN word ELSE U32Zero]

ProviderHosts == Hosts \cup {[error_code |-> 0, values |-> OneWord(U32FromNat(25185))]}

\* Process ids of 1, 2, 3 and 5 digits
ProviderPids ==
  {U64FromNat(1), U64Dec(Pow36(2)), Pow36(2), U64FromNat(4194304)}

InsideFingerprint(written) == written \subseteq 0..(CUID_FINGERPRINT_SIZE - 1)

NoOutput == [status |-> "none"]

Output(p) ==
  IF p.status = "returned"
  THEN [status |-> "returned", host |-> p.host, pid |-> p.pid,
        text |-> CString(p.result.bytes, 0), length |-> p.length]
  ELSE NoOutput

InitProvider ==
  /\ IdleCodec
  /\ IdleCounter
  /\ IdleRandom
  /\ IdleCuid
  /\ IdleQuick
  /\ IdleRead
  /\ IdleThreads
  /\ call = NoCall
  /\ \E fill \in Fills :
       provider = [status |-> "ready",
                   result |-> Memory(NewArray(ProviderExtent, fill)),
                   length |-> 0, calls |-> 0]

\* A write outside the 5 bytes is undefined behaviour: the call returns with
\* the bytes after the array overwritten, or the process is aborted.  The
\* guard bounds the number of calls.
ProviderCall(host, pid) ==
  /\ provider.status \in {"ready", "returned"}
  /\ provider.calls < MaxCalls
  /\ \E r \in {cuid_get_fingerprint(Memory(provider.result.bytes), 0, host, pid)} :
       \E status \in IF r.exited THEN {"exit"}
                      ELSE IF InsideFingerprint(r.mem.written) THEN {"returned"}
                      ELSE {"returned", "aborted"} :
         provider' = [status |-> status, result |-> r.mem, length |-> r.length,
                      calls |-> provider.calls + 1, host |-> host, pid |-> pid,
                      before |-> Output(provider)]
  /\ UNCHANGED <<codecVars, pureVars, quickVars, readVars, threadVars>>

NextProvider == \E host \in ProviderHosts, pid \in ProviderPids : ProviderCall(host, pid)

SpecProvider == InitProvider /\ [][NextProvider]_vars

(***************************************************************************)
(* Specification of everything that can end the process: the codec called  *)
(* with any width, the context API, quick mode and the fingerprint         *)
(* provider, each with the widths the code passes and with host-name       *)
(* lookups that succeed or fail.                                           *)
(***************************************************************************)
InitExit ==
  \/ InitCodec
  \/ InitCuidWith(ReadBindings, ValueFingerprints, ValueSeeds, ValueStamps, {FALSE})
  \/ InitQuick
  \/ InitProvider

NextExit ==
  \/ NextCodec
  \/ NextCuidWith(DOMAIN id, ValueFingerprints, ValueSeeds, ValueStamps)
  \/ \E src \in DOMAIN id : CuidRead(src)
  \/ \E timestamp \in QuickStamps, host \in Hosts, rand2 \in ThreadDraws2 :
       QuickCuid(timestamp, host, U64FromNat(1), U32FromNat(35), rand2)
  \/ NextProvider

SpecExit == InitExit /\ [][NextExit]_vars

(***************************************************************************)
(* Reference definitions used by the properties of the codec               *)
(***************************************************************************)
Digit(ch) == CHOOSE d \in 0..(base - 1) : cuid_radix36_table[d + 1] = ch

IsDigit(ch) == \E d \in 0..(base - 1) : cuid_radix36_table[d + 1] = ch

\* The number a digit string denotes in base 36, most significant digit first
RECURSIVE Numeral36(_)
Numeral36(s) ==
  IF s = <<>> THEN [value |-> U64FromNat(0), overflow |-> FALSE]
  ELSE LET head == Numeral36(SubSeq(s, 1, Len(s) - 1))
           r == U64MulAdd(head.value, base, Digit(s[Len(s)]))
       IN  [value |-> r.value, overflow |-> head.overflow \/ r.overflow]

\* encode(n): the digit string cuid_base36 leaves in a fresh array
Encode(n) ==
  CString(cuid_base36(n, Memory(NewArray(CUID_BASE36_RESULT_SIZE, NUL)), 0).mem.bytes, 0)

\* d left-padded to width, or cut to its last width characters
RefPad(d, width, pad) ==
  IF Len(d) < width THEN [i \in 1..(width - Len(d)) |-> pad] \o d
  ELSE SubSeq(d, Len(d) - width + 1, Len(d))

(***************************************************************************)
(* Properties of the codec (checked under SpecCodec)                       *)
(***************************************************************************)

\* C6: for every n and every width 0..15, what cuid_base36_pad leaves in the
\* array is encode(n) left-padded with pad_char to width characters when it
\* is shorter, its last width characters when it is longer, and encode(n)
\* itself when it has exactly width characters.
C6_PadMatchesReference ==
  codec.call = "cuid_base36_pad" =>
    LET s == CString(codec.cuid_result.bytes, 0)
        d == Encode(codec.cuid_number)
        n == codec.cuid_number
        w == codec.pad_length
    IN  /\ s = RefPad(d, w, codec.pad_char)
        /\ Len(d) = w => s = d
        /\ (n = U64FromNat(128) /\ w = 4 /\ codec.pad_char = "z")
             => s = <<"z", "z", "3", "k">>
        /\ (n = U64FromNat(12345) /\ w = 6 /\ codec.pad_char = "0")
             => s = <<"0", "0", "0", "9", "i", "x">>
        /\ (n = U64FromNat(0) /\ w = 4 /\ codec.pad_char = "0")
             => s = <<"0", "0", "0", "0">>
        /\ (n = U64FromNat(1234567890) /\ w = 4 /\ codec.pad_char = "0")
             => s = <<"1", "2", "o", "i">>

\* C6 witness: a padded call that had to clip (13 digits cut to 5)
C6_Witness ==
  /\ codec.call = "cuid_base36_pad"
  /\ codec.cuid_number = U64Max
  /\ codec.pad_length = 5
  /\ CString(codec.cuid_result.bytes, 0) = <<"4", "s", "g", "s", "f">>

\* C7: for every n and every accepted width (below 16), cuid_base36_pad
\* returns width and leaves exactly width characters followed by a NUL.
C7_PadLength ==
  codec.call = "cuid_base36_pad" =>
    /\ codec.length = codec.pad_length
    /\ codec.cuid_result.bytes[codec.pad_length] = NUL
    /\ \A i \in 0..(codec.pad_length - 1) : codec.cuid_result.bytes[i] # NUL
    /\ Len(CString(codec.cuid_result.bytes, 0)) = codec.pad_length

\* C7 witness: the widest accepted width, on an array that held no NUL
C7_Witness ==
  /\ codec.call = "cuid_base36_pad"
  /\ codec.pad_length = CUID_BASE36_RESULT_SIZE - 1
  /\ codec.length = CUID_BASE36_RESULT_SIZE - 1
  /\ codec.cuid_result.bytes[CUID_BASE36_RESULT_SIZE - 1] = NUL
  /\ codec.cuid_number = U64Max

\* C8: cuid_base36 leaves the base-36 numeral of n over 0-9a-z, most
\* significant digit first and without leading zeros, NUL-terminated, and
\* returns its number of digits; 0 gives "0", never the empty string.
C8_EncodeIsBase36 ==
  codec.call = "cuid_base36" =>
    LET bytes == codec.cuid_result.bytes
        s == CString(bytes, 0)
        n == codec.cuid_number
    IN  /\ codec.length = Len(s)
        /\ Len(s) >= 1
        /\ bytes[codec.length] = NUL
        /\ \A i \in 1..Len(s) : IsDigit(s[i])
        /\ Len(s) > 1 => s[1] # "0"
        /\ Numeral36(s) = [value |-> n, overflow |-> FALSE]
        /\ n = U64FromNat(0) => s = <<"0">>
        /\ n = U64FromNat(128) => s = <<"3", "k">>
        /\ n = U64FromNat(12345) => s = <<"9", "i", "x">>

\* C8 witness: the largest input, 2^64 - 1, encoded in 13 digits
C8_Witness ==
  /\ codec.call = "cuid_base36"
  /\ codec.cuid_number = U64Max
  /\ codec.length = 13
  /\ CString(codec.cuid_result.bytes, 0)
       = <<"3", "w", "5", "e", "1", "1", "2", "6", "4", "s", "g", "s", "f">>

(***************************************************************************)
(* Properties of the counter (checked under SpecCounter)                   *)
(***************************************************************************)

\* C9 as written: a created counter reads 0 and every advance makes the
\* counter read exactly one more than its argument read, as integers.
C9_AdvanceAddsOne ==
  [][/\ (call'.fn = "cuid_create_counter" /\ call'.dst # Dropped)
          => cuid_read_counter(cnt'[call'.dst]) = U32FromNat(0)
     /\ (call'.fn = "cuid_inc_counter" /\ call'.dst # Dropped)
          => U64FromU32(cuid_read_counter(cnt'[call'.dst]))
               = U64Inc(U64FromU32(cuid_read_counter(cnt[call'.src])))]_vars

\* C9 amended: a created counter reads 0 and every advance makes the counter
\* read (read(c) + 1) mod 2^32: one more than its argument below 2^32 - 1,
\* and 0 when the argument reads 2^32 - 1.
C9_AdvanceAddsOneMod32 ==
  [][/\ (call'.fn = "cuid_create_counter" /\ call'.dst # Dropped)
          => cuid_read_counter(cnt'[call'.dst]) = U32FromNat(0)
     /\ (call'.fn = "cuid_inc_counter" /\ call'.dst # Dropped)
          => LET before == cuid_read_counter(cnt[call'.src])
                 after == cuid_read_counter(cnt'[call'.dst])
             IN  /\ after = U32FromU64(U64Inc(U64FromU32(before)))
                 /\ before # U32Max => U32Less(before, after)
                 /\ before = U32Max => after = U32FromNat(0)]_vars

\* C9 witness: an advance of a counter that read 2^32 - 1 was assigned, and
\* the variable now reads 0
C9_Witness ==
  /\ call.fn = "cuid_inc_counter"
  /\ call.dst # Dropped
  /\ call.dst # call.src
  /\ cuid_read_counter(cnt[call.src]) = U32Max
  /\ cuid_read_counter(cnt[call.dst]) = U32FromNat(0)

(***************************************************************************)
(* Properties of the generator (checked under SpecRandom)                  *)
(***************************************************************************)

\* C3: replay.  Whatever calls came before, after an mwc_init and N calls
\* of mwc_next_random a generator reads what it read N calls after its
\* mwc_create; right after the mwc_init it reads what it read when created.
C3_ResetReplays ==
  \A b \in DOMAIN rng :
    (rng_log[b].reset /\ rng_log[b].steps < Len(rng_log[b].first))
      => mwc_read_random(rng[b]) = rng_log[b].first[rng_log[b].steps + 1]

\* C3 witness: three advances after create, a reset, three advances again,
\* the reads of the two runs being pairwise different values
C3_Witness ==
  \E b \in DOMAIN rng :
    /\ rng_log[b].reset
    /\ rng_log[b].steps = 3
    /\ Len(rng_log[b].first) = 4
    /\ Cardinality({rng_log[b].first[i] : i \in 1..4}) = 4
    /\ mwc_read_random(rng[b]) = rng_log[b].first[4]

(***************************************************************************)
(* Properties of the identifier context (checked under SpecCuid)           *)
(***************************************************************************)
\* encode_padded(n, width, '0') of the specification
EncodePadded(n, width) == RefPad(Encode(n), width, "0")

Text(bytes, p, literal) ==
  Chars(bytes, p, Len(literal)) = [i \in 1..Len(literal) |-> literal[i]]

\* The character code of a digit of the table: '0' is 48 and 'a' is 97
Ascii(ch) == IF Digit(ch) < 10 THEN 48 + Digit(ch) ELSE 97 + Digit(ch) - 10

\* strcmp(s, t) <= 0 on strings of the table's characters
RECURSIVE LexLeq(_, _)
LexLeq(s, t) ==
  IF s = <<>> THEN TRUE
  ELSE IF t = <<>> THEN FALSE
  ELSE IF s[1] = t[1] THEN LexLeq(Tail(s), Tail(t))
  ELSE Ascii(s[1]) < Ascii(t[1])

VisibleFingerprint(log) ==
  \A i \in 0..(CUID_BLOCK_LENGTH - 1) : log.fingerprint[i] # NUL

\* C1: after any cuid_init or cuid_next on a context created with a
\* fingerprint of 4 non-NUL bytes, the value read is 23 non-NUL characters
\* and a NUL at index 23: 'c', the timestamp in 6 digits, the counter in 4,
\* the fingerprint bytes, and the reads of the two generators in 4 each.
C1_RenderLayout ==
  \A b \in DOMAIN id :
    (id_log[b].rendered /\ VisibleFingerprint(id_log[b])) =>
      LET v == cuid_read(id[b])
      IN  /\ \A i \in 0..(CUID_SIZE - 2) : v[i] # NUL
          /\ v[CUID_SIZE - 1] = NUL
          /\ v[0] = "c"
          /\ Chars(v, 1, 6) = EncodePadded(id_log[b].timestamp, 6)
          /\ Chars(v, 7, 4) =
               EncodePadded(U64FromU32(cuid_read_counter(id[b].cuid_counter)), 4)
          /\ Chars(v, 11, 4) = Chars(id_log[b].fingerprint, 0, 4)
          /\ Chars(v, 15, 4) =
               EncodePadded(U64FromU32(mwc_read_random(id[b].cuid_rnd1)), 4)
          /\ Chars(v, 19, 4) =
               EncodePadded(U64FromU32(mwc_read_random(id[b].cuid_rnd2)), 4)

\* C1 witness: a cuid_next has rendered a full identifier whose two random
\* blocks differ
C1_Witness ==
  \E b \in DOMAIN id :
    /\ call = [fn |-> "cuid_next", src |-> b, dst |-> b]
    /\ VisibleFingerprint(id_log[b])
    /\ Text(cuid_read(id[b]), 0, <<"c", "3", "p", "1", "g", "d", "1">>)
    /\ Text(id_log[b].fingerprint, 0, <<"f", "i", "n", "g">>)
    /\ Chars(cuid_read(id[b]), 15, 4) # Chars(cuid_read(id[b]), 19, 4)
    /\ cuid_read(id[b])[CUID_SIZE - 1] = NUL

\* The blocks of C2 that do not depend on the number of advances, and the
\* two identifiers the tests read
C2_StampAndFingerprint(b) ==
  LET v == cuid_read(id[b])
      log == id_log[b]
      fing == Text(log.fingerprint, 0, <<"f", "i", "n", "g">>)
  IN  /\ Chars(v, 1, 6) = EncodePadded(log.timestamp, 6)
      /\ Chars(v, 11, 4) = Chars(log.fingerprint, 0, 4)
      /\ (fing /\ log.advances = U64FromNat(0)
             /\ log.timestamp = U64FromNat(123456789))
           => Text(v, 0, <<"c", "2", "1", "i", "3", "v", "9", "0", "0", "0", "0",
                           "f", "i", "n", "g">>)
      /\ (fing /\ log.advances = U64FromNat(1)
             /\ log.timestamp = U64FromNat(223456789))
           => Text(v, 0, <<"c", "3", "p", "1", "g", "d", "1", "0", "0", "0", "1",
                           "f", "i", "n", "g">>)

\* C2 as stated: k cuid_next calls after a cuid_init, the latest with
\* timestamp tk, read a counter block encode_padded(k,4,'0'), a timestamp
\* block encode_padded(tk,6,'0') and the fingerprint given to cuid_create.
C2_AdvanceBlocks ==
  \A b \in DOMAIN id :
    id_log[b].initialized =>
      /\ C2_StampAndFingerprint(b)
      /\ Chars(cuid_read(id[b]), 7, 4) = EncodePadded(id_log[b].advances, 4)

\* C2 amended: the counter block is encode_padded(k mod 2^32, 4, '0'); the
\* timestamp block, the fingerprint block and the two identifiers of the
\* tests are as stated.
C2_AdvanceBlocksMod32 ==
  \A b \in DOMAIN id :
    id_log[b].initialized =>
      /\ C2_StampAndFingerprint(b)
      /\ Chars(cuid_read(id[b]), 7, 4) =
           EncodePadded(U64FromU32(U32FromU64(id_log[b].advances)), 4)

\* C2 witness: a second cuid_next after a cuid_init
C2_Witness ==
  \E b \in DOMAIN id :
    /\ call = [fn |-> "cuid_next", src |-> b, dst |-> b]
    /\ id_log[b].initialized
    /\ id_log[b].advances = U64FromNat(2)
    /\ id_log[b].timestamp = U64FromNat(223456789)
    /\ Text(cuid_read(id[b]), 0, <<"c", "3", "p", "1", "g", "d", "1", "0", "0", "0", "2",
                                    "f", "i", "n", "g">>)

\* n divided by 36^k
RECURSIVE Quot36(_, _)
Quot36(n, k) == IF k = 0 THEN n ELSE Quot36(U64DivMod(n, base).quot, k - 1)

SameEpoch(t1, t2) ==
  Quot36(t1, CUID_TIMESTAMP_LENGTH) = Quot36(t2, CUID_TIMESTAMP_LENGTH)

\* C5 as stated: when an identifier is rendered with a timestamp t2 that is
\* not before the timestamp t1 of the identifier rendered before it, the
\* timestamp block of the earlier one is lexicographically <= the later's.
C5_TimeOrdered ==
  \A b \in DOMAIN id :
    \A p \in {id_log[b].prev[i] : i \in DOMAIN id_log[b].prev} :
      U64Leq(p.timestamp, id_log[b].timestamp)
        => LexLeq(p.block, TimestampBlock(id[b]))

\* C5 amended: the order holds when t1 <= t2 have the same quotient by 36^6,
\* in particular when both are below 36^6.
C5_TimeOrderedWithinEpoch ==
  \A b \in DOMAIN id :
    \A p \in {id_log[b].prev[i] : i \in DOMAIN id_log[b].prev} :
      (U64Leq(p.timestamp, id_log[b].timestamp)
         /\ SameEpoch(p.timestamp, id_log[b].timestamp))
        => LexLeq(p.block, TimestampBlock(id[b]))

\* C5 witness: an identifier stamped 223456789 rendered after one stamped
\* 123456789
C5_Witness ==
  \E b \in DOMAIN id :
    /\ id_log[b].prev # <<>>
    /\ id_log[b].prev[1].timestamp = U64FromNat(123456789)
    /\ id_log[b].timestamp = U64FromNat(223456789)
    /\ id_log[b].prev[1].block = <<"2", "1", "i", "3", "v", "9">>
    /\ TimestampBlock(id[b]) = <<"3", "p", "1", "g", "d", "1">>

(***************************************************************************)
(* Properties of quick mode (checked under SpecQuick)                      *)
(***************************************************************************)

\* C4: every write made during cuid(result) lands at an index 0..23 of the
\* 24-byte result array.
C4_QuickInsideBuffer ==
  quick.status \in {"returned", "aborted", "exit"}
    => InsideArray(quick.result.written)

(***************************************************************************)
(* Properties of the calls (checked under SpecValue)                       *)
(***************************************************************************)
CounterCalls == {"cuid_create_counter", "cuid_init_counter", "cuid_inc_counter"}

RandomCalls == {"mwc_create", "mwc_init", "mwc_next_random"}

CuidCalls == {"cuid_create", "cuid_init", "cuid_next"}

\* A call of one of the functions fns leaves every variable of bindings
\* but the one its result is assigned to as it was
OnlyDestination(bindings, after, fns) ==
  \A b \in DOMAIN bindings :
    after[b] # bindings[b] => (call'.fn \in fns /\ call'.dst = b)

\* C10: a call of the counter, the generator or the context changes no
\* variable but the one its result is assigned to: the argument is not
\* mutated, a call whose result is dropped changes no variable, and no
\* other counter, generator or context changes.
C10_ValueSemantics ==
  [][/\ OnlyDestination(cnt, cnt', CounterCalls)
     /\ OnlyDestination(rng, rng', RandomCalls)
     /\ OnlyDestination(id, id', CuidCalls)]_vars

\* C10 witness: a cuid_next of the context of variable 1 assigned to
\* variable 2, variable 1 still reading the identifier of its cuid_init
C10_Witness ==
  /\ call = [fn |-> "cuid_next", src |-> 1, dst |-> 2]
  /\ DOMAIN id = ValueBindings
  /\ id_log[1].initialized /\ id_log[1].steps = 0
  /\ id_log[2].steps = 1
  /\ cuid_read_counter(id[1].cuid_counter) = U32FromNat(0)
  /\ cuid_read_counter(id[2].cuid_counter) = U32FromNat(1)
  /\ cuid_read(id[1]) # cuid_read(id[2])


(***************************************************************************)
(* C11: reads are pure and repeatable.  A cuid_read copies the 24 bytes of *)
(* the context's value verbatim, mwc_read_random returns Q[cursor] and     *)
(* cuid_read_counter returns the counter's value; a read changes no        *)
(* counter, generator or context, and a read that follows a read of the    *)
(* same variable, nothing in between, returns the same value.              *)
(***************************************************************************)
ReadCalls == {"cuid_read_counter", "mwc_read_random", "cuid_read"}

ReadValue(fn, src) ==
  CASE fn = "cuid_read_counter" -> cnt[src].value
    [] fn = "mwc_read_random" ->
         WordAt(rng[src].mwc_q, rng[src].mwc_current_cycle)
    [] fn = "cuid_read" -> [i \in 0..(CUID_SIZE - 1) |-> id[src].cuid_value[i]]

C11_ReadsArePure ==
  [][call'.fn \in ReadCalls /\ call' # call =>
       /\ cnt' = cnt /\ rng' = rng /\ id' = id
       /\ rng_log' = rng_log /\ id_log' = id_log
       /\ got'.fn = call'.fn /\ got'.src = call'.src
       /\ got'.value = ReadValue(call'.fn, call'.src)
       /\ (call.fn = call'.fn /\ call.src = call'.src /\ got.fn = call.fn
             => got'.value = got.value)]_vars

\* C11 witness: the second cuid_read in a row of a context advanced once,
\* returning its 23 characters and their terminator
C11_Witness ==
  /\ call.fn = "cuid_read" /\ got.fn = "cuid_read"
  /\ got.repeat = MaxReads
  /\ id_log[got.src].steps = 1
  /\ DOMAIN got.value = 0..(CUID_SIZE - 1)
  /\ got.value[0] = "c" /\ got.value[CUID_SIZE - 1] = NUL
  /\ \A i \in 0..(CUID_SIZE - 2) : got.value[i] # NUL


(***************************************************************************)
(* C12: cuid_init is valid on a context in any state and always returns a  *)
(* context whose counter reads 0, whose two generators hold their recorded *)
(* initial carry and table with the cursor at 4095, whose timestamp block  *)
(* is encode_padded(timestamp,6,'0'), whose value is rendered anew from    *)
(* these, and whose fingerprint is the one it had; cuid_init_counter gives *)
(* a counter reading 0 from any counter and a second call changes nothing. *)
(***************************************************************************)
Reset(old, new) ==
  /\ new.mwc_carry = old.mwc_initial_carry
  /\ new.mwc_q = old.mwc_initial_q
  /\ new.mwc_current_cycle = MWC_CYCLE - 1
  /\ new.mwc_initial_carry = old.mwc_initial_carry
  /\ new.mwc_initial_q = old.mwc_initial_q

Initialized(old, new, timestamp) ==
  LET v == cuid_read(new)
  IN  /\ cuid_read_counter(new.cuid_counter) = U32Zero
      /\ Reset(old.cuid_rnd1, new.cuid_rnd1)
      /\ Reset(old.cuid_rnd2, new.cuid_rnd2)
      /\ CString(new.cuid_timestamp, 0) = EncodePadded(timestamp, 6)
      /\ new.cuid_fingerprint = old.cuid_fingerprint
      /\ v[0] = "c"
      /\ Chars(v, 1, 6) = EncodePadded(timestamp, 6)
      /\ Chars(v, 7, 4) = <<"0", "0", "0", "0">>
      /\ Chars(v, 11, 4) = Chars(old.cuid_fingerprint, 0, 4)
      /\ Chars(v, 15, 4) =
           EncodePadded(U64FromU32(WordAt(old.cuid_rnd1.mwc_initial_q,
                                          MWC_CYCLE - 1)), 4)
      /\ Chars(v, 19, 4) =
           EncodePadded(U64FromU32(WordAt(old.cuid_rnd2.mwc_initial_q,
                                          MWC_CYCLE - 1)), 4)
      /\ v[CUID_SIZE - 1] = NUL

C12_InitFromEveryState ==
  [][/\ \A b \in DOMAIN id :
          /\ cuid_read_counter(cuid_init_counter(id[b].cuid_counter)) = U32Zero
          /\ cuid_init_counter(cuid_init_counter(id[b].cuid_counter))
               = cuid_init_counter(id[b].cuid_counter)
     /\ call'.fn = "cuid_init" =>
          Initialized(id[call'.src], id'[call'.dst], id_log'[call'.dst].timestamp)
    ]_vars

\* C12 witness: a cuid_init of a context that had been advanced, its
\* counter block back at "0000"
C12_Witness ==
  \E b \in DOMAIN id :
    /\ call = [fn |-> "cuid_init", src |-> b, dst |-> b]
    /\ id_log[b].from = "Advanced"
    /\ id_log[b].prev # <<>>
    /\ id_log[b].timestamp = U64FromNat(223456789)
    /\ Text(cuid_read(id[b]), 0, <<"c", "3", "p", "1", "g", "d", "1", "0", "0", "0", "0">>)
    /\ cuid_read_counter(id[b].cuid_counter) = U32Zero


(***************************************************************************)
(* C13: cuid_create(fingerprint) returns a context not yet rendered: its   *)
(* fingerprint bytes are the given ones, its counter reads 0, its two      *)
(* generators are as mwc_create leaves them (a carry below MWC_C_MAX, the  *)
(* cursor at 4095, table and carry equal to their snapshot), and its value *)
(* is 24 zero bytes, read as the empty string.                             *)
(***************************************************************************)
Fresh(r) ==
  /\ U32Less(r.mwc_carry, U32FromNat(MWC_C_MAX))
  /\ r.mwc_initial_carry = r.mwc_carry
  /\ r.mwc_current_cycle = MWC_CYCLE - 1
  /\ r.mwc_q = r.mwc_initial_q
  /\ r.mwc_q.stored = <<>>

C13_Created ==
  \A b \in DOMAIN id :
    Phase(id_log[b]) = "Created" =>
      /\ \A i \in 0..(CUID_FINGERPRINT_SIZE - 1) :
           id[b].cuid_fingerprint[i] = id_log[b].fingerprint[i]
      /\ cuid_read_counter(id[b].cuid_counter) = U32Zero
      /\ Fresh(id[b].cuid_rnd1)
      /\ Fresh(id[b].cuid_rnd2)
      /\ \A i \in 0..(CUID_SIZE - 1) : cuid_read(id[b])[i] = NUL
      /\ CString(cuid_read(id[b]), 0) = <<>>

\* C13 witness: the context returned by a cuid_create("fing") call
C13_Witness ==
  \E b \in DOMAIN id :
    /\ call = [fn |-> "cuid_create", src |-> Dropped, dst |-> b]
    /\ Phase(id_log[b]) = "Created"
    /\ Text(id[b].cuid_fingerprint, 0, <<"f", "i", "n", "g", NUL>>)
    /\ cuid_read(id[b])[0] = NUL


(***************************************************************************)
(* C14 as stated: the k-th call of cuid() in a process renders the counter *)
(* block encode_padded(k,4,'0'), the first call "0001", and the counter    *)
(* blocks of two successive calls, read as base-36 numbers, differ by 1.   *)
(***************************************************************************)
BlockNumber(block) ==
  ((Digit(block[1]) * base + Digit(block[2])) * base + Digit(block[3])) * base
    + Digit(block[4])

FirstShowsOne ==
  quick.made = U64FromNat(1) => CounterBlock(quick) = <<"0", "0", "0", "1">>

C14_QuickCounter ==
  quick.status = "returned" =>
    /\ CounterBlock(quick) = EncodePadded(quick.made, CUID_BLOCK_LENGTH)
    /\ FirstShowsOne
    /\ quick.before # <<>> =>
         BlockNumber(CounterBlock(quick)) = BlockNumber(quick.before) + 1

\* C14 amended: the counter has 32 bits, so the k-th call renders
\* encode_padded(k mod 2^32,4,'0'); successive counter blocks differ by 1
\* modulo 36^4, except where the counter wraps from 2^32 - 1 to 0.
C14_QuickCounterMod32 ==
  quick.status = "returned" =>
    /\ CounterBlock(quick) =
         EncodePadded(U64FromU32(U32FromU64(quick.made)), CUID_BLOCK_LENGTH)
    /\ FirstShowsOne
    /\ quick.before # <<>> =>
         IF U32FromU64(quick.made) = U32Zero
         THEN /\ quick.before = <<"4", "1", "z", "3">>
              /\ CounterBlock(quick) = <<"0", "0", "0", "0">>
         ELSE BlockNumber(CounterBlock(quick)) =
                (BlockNumber(quick.before) + 1) % (base * base * base * base)

\* C14 witness: the second call of a process, rendering "0002" after "0001"
C14_Witness ==
  /\ quick.status = "returned"
  /\ quick.made = U64FromNat(2)
  /\ quick.before = <<"0", "0", "0", "1">>
  /\ CounterBlock(quick) = <<"0", "0", "0", "2">>


(***************************************************************************)
(* C15: both modes produce the same output for the same inputs.  Given the *)
(* timestamp, the counter value, the 4-character fingerprint and the two   *)
(* 32-bit random values of a cuid() call, the call leaves in result[0..22] *)
(* the 23 characters cuid_gen_value_string renders from them, a NUL at     *)
(* result[23], and returns 23.                                             *)
(***************************************************************************)
\* The fingerprint the provider gives for a host and a pid, as the array
\* handed to cuid_create
ProvidedFingerprint(host, pid) ==
  LET r == cuid_get_fingerprint(
             Memory(NewArray(2 + CUID_BASE36_RESULT_SIZE, NUL)), 0, host, pid)
  IN  [i \in 0..(CUID_FINGERPRINT_SIZE - 1) |-> r.mem.bytes[i]]

\* A generator whose read is the given word
Reading(word) ==
  [mwc_create(<<U32Zero>>, "ones")
     EXCEPT !.mwc_q = WordStore(@, MWC_CYCLE - 1, word)]

\* The value the pure API renders from the inputs of a cuid() call
PureValue(timestamp, counter, fingerprint, rand1, rand2) ==
  LET made == cuid_create(fingerprint,
                          [draws1 |-> <<U32Zero>>, stream1 |-> "ones",
                           draws2 |-> <<U32Zero>>, stream2 |-> "ones"])
  IN  cuid_read(ByValue(cuid_gen_value_string,
        [made EXCEPT !.cuid_counter = [value |-> counter],
                     !.cuid_rnd1 = Reading(rand1),
                     !.cuid_rnd2 = Reading(rand2),
                     !.cuid_timestamp = PadField(timestamp, @,
                                                 CUID_TIMESTAMP_LENGTH, "0")]))

QuickEqualsPure ==
  /\ quick.length = CUID_SIZE - 1
  /\ quick.result.bytes[CUID_SIZE - 1] = NUL
  /\ Chars(quick.result.bytes, 0, CUID_SIZE - 1) =
       Chars(PureValue(quick.timestamp, quick.counter,
                       ProvidedFingerprint(quick.host, quick.pid),
                       quick.rand1, quick.rand2), 0, CUID_SIZE - 1)

\* Stated of the calls that return: a call that exits in the fingerprint
\* provider, or that is aborted for writing past the array, leaves no
\* output to compare.
C15_QuickEqualsPure == quick.status = "returned" => QuickEqualsPure

\* C15 witness: a returned call whose last block was cut in place from the
\* 7 digits of 2^32 - 1, the digits after the block overwritten or past
\* the terminator
C15_Witness ==
  /\ quick.status = "returned"
  /\ quick.rand1 = U32Max
  /\ quick.rand2 = U32Max
  /\ quick.timestamp = U64Max
  /\ Text(quick.result.bytes, 15, <<"4", "1", "z", "3", "4", "1", "z", "3", NUL>>)

(***************************************************************************)
(* C16: the static counter of cuid() is the only cell two concurrent calls *)
(* share, and its increment is not atomic.  Each call touches no array but *)
(* its own; the counter block a call renders is the counter's start value  *)
(* plus 1 or plus 2; and when one of the two increments is lost (the       *)
(* counter ends at start + 1) both calls have rendered the same block.     *)
(***************************************************************************)
ThreadBlock(t) ==
  Chars(threads.thread[t].result.bytes, 1 + CUID_TIMESTAMP_LENGTH,
        CUID_BLOCK_LENGTH)

Other(t) == CHOOSE u \in Threads : u # t

C16_Returned(t) ==
  threads.thread[t].pc = "returned" =>
    /\ threads.thread[t].value \in
         {U32Inc(threads.start), U32Inc(U32Inc(threads.start))}
    /\ ThreadBlock(t) =
         EncodePadded(U64FromU32(threads.thread[t].value), CUID_BLOCK_LENGTH)
    /\ threads.thread[t].result.bytes[CUID_SIZE - 1] = NUL

C16_SharedCounter ==
  /\ \A t \in Threads : C16_Returned(t)
  /\ \A t \in Threads :
       threads.thread[t].pc \in {"called", "loaded", "stored"} =>
         threads.thread[t].result.written = {}
  /\ (\A t \in Threads : threads.thread[t].pc = "returned") =>
       /\ threads.counter \in
            {U32Inc(threads.start), U32Inc(U32Inc(threads.start))}
       /\ threads.counter = U32Inc(threads.start) =>
            ThreadBlock(1) = ThreadBlock(2)

\* C16 witness: both calls have returned, each having loaded the counter
\* before the other stored it: the counter has advanced once and both
\* arrays hold the counter block "0001"
C16_Witness ==
  /\ threads.start = U32Zero
  /\ \A t \in Threads :
       /\ threads.thread[t].pc = "returned"
       /\ threads.thread[t].tmp = U32Zero
       /\ ThreadBlock(t) = <<"0", "0", "0", "1">>
  /\ threads.counter = U32FromNat(1)


(***************************************************************************)
(* C17: the fingerprint provider returns 4 and its output is a function of *)
(* the host name and the process id: characters 0..1 are                   *)
(* encode_padded(sum of the 64 32-bit words of the host-name buffer,2,'0'),*)
(* characters 2..3 are encode_padded(pid,2,'0'), and two calls with the    *)
(* same host name and pid return the same output.  Stated of the calls     *)
(* that return.                                                            *)
(***************************************************************************)
\* The sum of the words, each distinct word counted as often as it occurs
RECURSIVE SumOfDistinct(_, _)
SumOfDistinct(values, words) ==
  IF words = {} THEN U64FromNat(0)
  ELSE LET w == CHOOSE x \in words : TRUE
           times == Cardinality({i \in DOMAIN values : values[i] = w})
       IN  U64Add(U64MulAdd(U64FromU32(w), times, 0).value,
                  SumOfDistinct(values, words \ {w}))

WordSum(values) == SumOfDistinct(values, {values[i] : i \in DOMAIN values})

C18_FingerprintInsideArray ==
  provider.status \in {"returned", "aborted"} =>
    InsideFingerprint(provider.result.written)


(***************************************************************************)
(* C19: cuid_base36_pad ends the process exactly when the width is 16 or   *)
(* more, before it writes anything to the result array; no call made with  *)
(* the widths 6, 4 and 2 of the context API, quick mode and the            *)
(* fingerprint provider does, so no sequence of cuid_create, cuid_init,    *)
(* cuid_next and cuid_read ends in it, and a quick-mode or provider call   *)
(* that ends the process does so for a failed host-name lookup only.       *)
(***************************************************************************)
Untouched(m) ==
  /\ m.written = {}
  /\ \E fill \in Fills : \A i \in DOMAIN m.bytes : m.bytes[i] = fill

C19_ConfigurationError ==
  /\ codec.call \in {"exit", "cuid_base36_pad"} =>
       /\ codec.call = "exit" <=> codec.pad_length >= 16
       /\ codec.call = "exit" => Untouched(codec.cuid_result) /\ codec.length = 0
  /\ call.fn # "CUID_EXIT"
  /\ quick.status = "exit" => quick.host.error_code # 0
  /\ provider.status = "exit" => provider.host.error_code # 0

\* C19 witness: cuid_base36_pad called with width 16 has ended the process
C19_Witness ==
  /\ codec.call = "exit"
  /\ codec.pad_length = 16
  /\ codec.cuid_number = U64Max
  /\ Untouched(codec.cuid_result)

(***************************************************************************)
(* C20: when gethostname fails, cuid_get_fingerprint ends the process and  *)
(* writes no character to its result; a cuid() call whose lookup fails     *)
(* ends the process and returns no identifier.                             *)
(***************************************************************************)
C20_HostnameFailure ==
  /\ (provider.status \notin {"idle", "ready"} /\ provider.host.error_code # 0) =>
       /\ provider.status = "exit"
       /\ provider.length = 0
       /\ provider.result.written = {}
       /\ provider.before # NoOutput =>
            CString(provider.result.bytes, 0) = provider.before.text
  /\ (quick.status \notin {"idle", "ready"} /\ quick.host.error_code # 0) =>
       /\ quick.status = "exit"
       /\ quick.length = 1 + CUID_TIMESTAMP_LENGTH + CUID_BLOCK_LENGTH
  /\ quick.status = "returned" => quick.host.error_code = 0
  /\ provider.status = "returned" => provider.host.error_code = 0

\* C20 witness: the second call of cuid() ended the process in the
\* fingerprint provider, after the timestamp and counter blocks were written
C20_Witness ==
  /\ quick.status = "exit"
  /\ quick.calls = 2
  /\ quick.host.error_code # 0
  /\ quick.length = 1 + CUID_TIMESTAMP_LENGTH + CUID_BLOCK_LENGTH


(***************************************************************************)
(* C21: mwc_next_random computes cursor' = (cursor + 1) mod 4096,          *)
(* t = 18782 * Q[cursor'] + carry in 64 bits, carry' = t >> 32,            *)
(* x = (low32(t) + carry') mod 2^32, both x and carry' one more when       *)
(* x < carry', and Q'[cursor'] = (0xFFFFFFFE - x) mod 2^32, which is what  *)
(* a read of the result returns.                                           *)
(***************************************************************************)
\* 18782 * q + carry, the product summed limb by limb
Product(q, carry) ==
  U64Add(U64MulAdd(<<0, 0, q[1], q[2]>>, 18782, 0).value, <<0, 0, carry[1], carry[2]>>)

High32(t) == <<t[1], t[2]>>

Low32(t) == <<t[3], t[4]>>

\* (a + b) mod 2^32 and (a - b) mod 2^32 from the 64-bit sum
Plus32(a, b) == Low32(U64Add(<<0, 0, a[1], a[2]>>, <<0, 0, b[1], b[2]>>))

Minus32(a, b) ==
  Low32(U64Add(<<0, 1, a[1], a[2]>>,
               U64Inc(<<0, 0, Limb - 1 - b[1], Limb - 1 - b[2]>>)))

Advanced(old, new) ==
  LET cursor == IF old.mwc_current_cycle = 4095 THEN 0
                ELSE old.mwc_current_cycle + 1
      t == Product(WordAt(old.mwc_q, cursor), old.mwc_carry)
      carry == High32(t)
      x == Plus32(Low32(t), carry)
      wrapped == U32Less(x, carry)
      x1 == IF wrapped THEN Plus32(x, <<0, 1>>) ELSE x
      carry1 == IF wrapped THEN Plus32(carry, <<0, 1>>) ELSE carry
  IN  /\ new.mwc_current_cycle = cursor
      /\ new.mwc_carry = carry1
      /\ WordAt(new.mwc_q, cursor) = Minus32(<<Limb - 1, Limb - 2>>, x1)
      /\ mwc_read_random(new) = Minus32(<<Limb - 1, Limb - 2>>, x1)

C21_AdvanceArithmetic ==
  [][(call'.fn = "mwc_next_random" /\ call'.dst # Dropped) =>
       Advanced(rng[call'.src], rng'[call'.dst])]_vars

\* C21 witness: the first advance of a generator created with carry 5 and
\* Q[0] = 2^32 - 1.  t = 18782 * (2^32 - 1) + 5 has high word 18781 and low
\* word 2^32 - 18777; their sum wraps to 4 < 18781, so x = 5, the carry is
\* 18782 and the word stored is 0xFFFFFFFE - 5.
C21_Witness ==
  \E b \in DOMAIN rng :
    /\ call = [fn |-> "mwc_next_random", src |-> b, dst |-> b]
    /\ rng_log[b].steps = 1
    /\ rng[b].mwc_initial_carry = U32FromNat(5)
    /\ WordAt(rng[b].mwc_initial_q, 0) = U32Max
    /\ rng[b].mwc_current_cycle = 0
    /\ rng[b].mwc_carry = U32FromNat(18782)
    /\ mwc_read_random(rng[b]) = <<Limb - 1, Limb - 7>>


(***************************************************************************)
(* C22: after mwc_create the carry is below C_MAX = 809430660, every draw  *)
(* at or above it having been rejected; each of the 4096 table slots holds *)
(* a draw of the seed source; the saved table and carry equal the live     *)
(* ones; the cursor is 4095; and a read right after mwc_create, or after   *)
(* mwc_init, returns the seed word of slot 4095.                           *)
(***************************************************************************)
\* c is the first of the draws below C_MAX
FirstAccepted(draws, c) ==
  \E k \in 1..Len(draws) :
    /\ draws[k] = c
    /\ U32Less(c, U32FromNat(809430660))
    /\ \A j \in 1..(k - 1) : ~U32Less(draws[j], U32FromNat(809430660))

C22_Created ==
  \A b \in DOMAIN rng :
    /\ (rng_log[b].steps = 0 /\ ~rng_log[b].reset) =>
         /\ FirstAccepted(rng_log[b].draws, rng[b].mwc_carry)
         /\ \A i \in 0..4095 :
              WordAt(rng[b].mwc_q, i) = SeedWord(rng[b].mwc_q.fill, i)
         /\ rng[b].mwc_initial_carry = rng[b].mwc_carry
         /\ rng[b].mwc_initial_q = rng[b].mwc_q
         /\ rng[b].mwc_current_cycle = 4095
    /\ rng_log[b].steps = 0 =>
         mwc_read_random(rng[b]) = SeedWord(rng[b].mwc_initial_q.fill, 4095)

\* C22 witness: an mwc_create whose first two draws, 2^32 - 1 and C_MAX,
\* were rejected and whose third, 18781, is the carry
C22_Witness ==
  \E b \in DOMAIN rng :
    /\ call = [fn |-> "mwc_create", src |-> Dropped, dst |-> b]
    /\ rng_log[b].steps = 0 /\ ~rng_log[b].reset
    /\ Len(rng_log[b].draws) = 3
    /\ rng_log[b].draws[2] = U32FromNat(809430660)
    /\ rng[b].mwc_carry = U32FromNat(18781)
    /\ rng[b].mwc_current_cycle = 4095


(***************************************************************************)
(* C23: in every generator state reachable from mwc_create by              *)
(* mwc_next_random and mwc_init calls the cursor is in 0..4095, the carry  *)
(* is below C_MAX = 809430660 and at most 18783 after an advance, and      *)
(* t = 18782 * Q[cursor] + carry of the next advance fits in 64 bits.      *)
(***************************************************************************)
NextFits(r) ==
  LET q == WordAt(r.mwc_q, (r.mwc_current_cycle + 1) % 4096)
      product == U64MulAdd(<<0, 0, q[1], q[2]>>, 18782, 0)
      t == U64Add(product.value, <<0, 0, r.mwc_carry[1], r.mwc_carry[2]>>)
  IN  /\ ~product.overflow
      /\ U64Leq(product.value, t)

C23_GeneratorInvariant ==
  \A b \in DOMAIN rng :
    /\ rng[b].mwc_current_cycle \in 0..4095
    /\ U32Less(rng[b].mwc_carry, U32FromNat(809430660))
    /\ rng_log[b].steps > 0 => ~U32Less(U32FromNat(18783), rng[b].mwc_carry)
    /\ NextFits(rng[b])

\* C23 witness: a generator created with carry C_MAX - 1 and advanced
\* three times, the cursor having wrapped from 4095 to 0 and reached 2
C23_Witness ==
  \E b \in DOMAIN rng :
    /\ call.fn = "mwc_next_random"
    /\ rng[b].mwc_initial_carry = U32FromNat(809430659)
    /\ rng_log[b].steps = 3
    /\ rng[b].mwc_current_cycle = 2
    /\ rng[b].mwc_carry # rng[b].mwc_initial_carry


(***************************************************************************)
(* C24: mwc_next_random changes only the cursor, the carry and the table   *)
(* slot at the new cursor: the other 4095 slots keep their words; neither  *)
(* mwc_next_random nor mwc_init changes the saved table or the saved carry.*)
(***************************************************************************)
SnapshotKept(old, new) ==
  /\ new.mwc_initial_carry = old.mwc_initial_carry
  /\ \A i \in 0..4095 : WordAt(new.mwc_initial_q, i) = WordAt(old.mwc_initial_q, i)

C24_AdvanceFrame ==
  [][/\ (call'.fn = "mwc_next_random" /\ call'.dst # Dropped) =>
          LET old == rng[call'.src]
              new == rng'[call'.dst]
          IN  /\ \A i \in 0..4095 :
                   i # new.mwc_current_cycle =>
                     WordAt(new.mwc_q, i) = WordAt(old.mwc_q, i)
              /\ DOMAIN new = DOMAIN old
              /\ SnapshotKept(old, new)
     /\ (call'.fn = "mwc_init" /\ call'.dst # Dropped) =>
          SnapshotKept(rng[call'.src], rng'[call'.dst])]_vars

\* C24 witness: a third advance, after which slots 0, 1 and 2 hold new
\* words, every other slot and the snapshot the words of mwc_create
C24_Witness ==
  \E b \in DOMAIN rng :
    /\ call = [fn |-> "mwc_next_random", src |-> b, dst |-> b]
    /\ rng_log[b].steps = 3
    /\ \A i \in 0..2 : WordAt(rng[b].mwc_q, i) # WordAt(rng[b].mwc_initial_q, i)
    /\ \A i \in 3..4095 : WordAt(rng[b].mwc_q, i) = WordAt(rng[b].mwc_initial_q, i)


(***************************************************************************)
(* C25 as stated: with no cuid_init in between, two identifiers of one     *)
(* context rendered fewer than 36^4 cuid_next calls apart have different   *)
(* counter blocks, and so are different identifiers.                       *)
(***************************************************************************)
Near(a0, a1) ==
  /\ U64Less(a0, a1)
  /\ U64Less(a1, U64Add(a0, Pow36(CUID_BLOCK_LENGTH)))

Differ(kept, now) ==
  /\ IdCounterBlock(kept) # IdCounterBlock(now)
  /\ kept # now

C25_CounterBlocksApart ==
  got.fn = "cuid_read" =>
    (Near(got.advances, id_log[got.src].advances) =>
       Differ(got.value, cuid_read(id[got.src])))

\* Whether the 32-bit counter passed from 2^32 - 1 to 0 between the two
AcrossWrap(a0, a1) == <<a0[1], a0[2]>> # <<a1[1], a1[2]>>

\* C25 amended: the same, except for two identifiers exactly 189184
\* (2^32 modulo 36^4) cuid_next calls apart between which the 32-bit
\* counter wrapped from 2^32 - 1 to 0.
C25_CounterBlocksApartModWrap ==
  got.fn = "cuid_read" =>
    LET a0 == got.advances
        a1 == id_log[got.src].advances
    IN  (/\ Near(a0, a1)
         /\ ~(AcrossWrap(a0, a1) /\ a1 = U64Add(a0, U64FromNat(WrapDistance))))
          => Differ(got.value, cuid_read(id[got.src]))

\* C25 witness: an identifier kept at counter 2^32 - 2 (block "41z2") and
\* the one rendered 189185 calls later, across the wrap, with block "41z3"
C25_Witness ==
  /\ got.fn = "cuid_read"
  /\ call.fn = "cuid_next"
  /\ got.advances = LongRunAdvances
  /\ id_log[got.src].advances =
       U64Add(LongRunAdvances, U64FromNat(WrapDistance + 1))
  /\ IdCounterBlock(got.value) = <<"4", "1", "z", "2">>
  /\ IdCounterBlock(cuid_read(id[got.src])) = <<"4", "1", "z", "3">>


(***************************************************************************)
(* C26: cuid_init is a function of the seed snapshot, the fingerprint and  *)
(* the timestamp of the context.  Two contexts with the same snapshot and  *)
(* fingerprint hold the same identifier after a cuid_init with the same    *)
(* timestamp, whatever was called on them before, and the same counter     *)
(* and random blocks j cuid_next calls after a cuid_init.                  *)
(***************************************************************************)
SameCreate(c, d) ==
  /\ c.cuid_fingerprint = d.cuid_fingerprint
  /\ c.cuid_rnd1.mwc_initial_carry = d.cuid_rnd1.mwc_initial_carry
  /\ c.cuid_rnd2.mwc_initial_carry = d.cuid_rnd2.mwc_initial_carry
  /\ c.cuid_rnd1.mwc_initial_q = d.cuid_rnd1.mwc_initial_q
  /\ c.cuid_rnd2.mwc_initial_q = d.cuid_rnd2.mwc_initial_q

\* The counter block and the two random blocks of an identifier
CountedBlocks(value) ==
  <<IdCounterBlock(value),
    Chars(value, 1 + CUID_TIMESTAMP_LENGTH + 2 * CUID_BLOCK_LENGTH,
          2 * CUID_BLOCK_LENGTH)>>

C26_InitReplays ==
  \A a \in DOMAIN id, b \in DOMAIN id :
    (/\ SameCreate(id[a], id[b])
     /\ id_log[a].initialized /\ id_log[b].initialized
     /\ id_log[a].advances = id_log[b].advances)
      => /\ CountedBlocks(cuid_read(id[a])) = CountedBlocks(cuid_read(id[b]))
         /\ (id_log[a].advances = U64FromNat(0)
               /\ id_log[a].timestamp = id_log[b].timestamp)
              => cuid_read(id[a]) = cuid_read(id[b])

\* C26 witness: two variables with the same snapshot and fingerprint,
\* initialised at different timestamps and advanced once each, holding
\* counter block "0001" and the same random blocks
C26_Witness ==
  /\ DOMAIN id = {1, 2}
  /\ call = [fn |-> "cuid_next", src |-> 2, dst |-> 2]
  /\ SameCreate(id[1], id[2])
  /\ id_log[1].initialized /\ id_log[2].initialized
  /\ id_log[1].steps = 1 /\ id_log[2].steps = 1
  /\ id_log[1].prev # <<>> /\ id_log[2].prev # <<>>
  /\ id_log[1].prev[1].timestamp # id_log[2].prev[1].timestamp
  /\ CountedBlocks(cuid_read(id[1])) = CountedBlocks(cuid_read(id[2]))
  /\ CountedBlocks(cuid_read(id[1]))[1] = <<"0", "0", "0", "1">>


NextWord(old) ==
  LET cursor == IF old.mwc_current_cycle = 4095 THEN 0
                ELSE old.mwc_current_cycle + 1
      t == Product(WordAt(old.mwc_q, cursor), old.mwc_carry)
      carry == High32(t)
      x == Plus32(Low32(t), carry)
      x1 == IF U32Less(x, carry) THEN Plus32(x, <<0, 1>>) ELSE x
  IN  Minus32(<<Limb - 1, Limb - 2>>, x1)

LoopsBounded ==
  /\ InFillLoop => rng_log[1].filled <= MWC_CYCLE
  /\ InDigitLoop => codec.length < CUID_BASE36_RESULT_SIZE - 1
  /\ call.fn = "cuid_base36" =>
       /\ codec.length <= CUID_BASE36_RESULT_SIZE - 1
       /\ codec.cuid_result = cuid_base36(codec.cuid_number,
             Memory(NewArray(CUID_BASE36_RESULT_SIZE, NUL)), 0).mem

C28_Terminates ==
  /\ []LoopsBounded
  /\ InSeedLoop ~> InFillLoop
  /\ InFillLoop ~> (call.fn = "mwc_create")
  /\ InDigitLoop ~> (call.fn = "cuid_base36")

\* C28 witness: mwc_create has returned with carry 5 after the loop of
\* mwc_initial_c rejected two draws and the table was filled
C28_Witness ==
  /\ call.fn = "mwc_create"
  /\ rng_log[1].draws =
       <<U32FromNat(MWC_C_MAX), U32FromNat(MWC_C_MAX), U32FromNat(5)>>
  /\ rng[1].mwc_carry = U32FromNat(5)
  /\ rng[1].mwc_current_cycle = MWC_CYCLE - 1


(***************************************************************************)
(* C29: for every 64-bit n, cuid_base36 writes between 1 and 13 digits,    *)
(* as many as n has in base 36, so its loop ends because the number is     *)
(* used up and never because 15 digits were written; the digits read as a  *)
(* base-36 numeral give n back, and no other number has the same digits.   *)
(***************************************************************************)
\* k is the number of base-36 digits of n
DigitCount(n, k) ==
  /\ k \in 1..13
  /\ k > 1 => U64Leq(Pow36(k - 1), n)
  /\ k < 13 => U64Less(n, Pow36(k))

C29_EncodeLossless ==
  codec.call = "cuid_base36" =>
    LET n == codec.cuid_number
        s == CString(codec.cuid_result.bytes, 0)
    IN  /\ DigitCount(n, codec.length)
        /\ codec.length < CUID_BASE36_RESULT_SIZE - 1
        /\ Len(s) = codec.length
        /\ Numeral36(s).value = n
        /\ ~Numeral36(s).overflow
        /\ \A other \in Numbers64 : Encode(other) = s => other = n

\* C29 witness: 36^12, the smallest number with 13 digits
C29_Witness ==
  /\ codec.call = "cuid_base36"
  /\ codec.cuid_number = Pow36(12)
  /\ codec.length = 13
  /\ CString(codec.cuid_result.bytes, 0)
       = <<"1", "0", "0", "0", "0", "0", "0", "0", "0", "0", "0", "0", "0">>

=============================================================================
